---- MODULE Spec2Model ----
(***************************************************************************)
(* The FoundationDB job queue of apps/fdb-queue-service/src/fdb.rs as a    *)
(* state machine.  Keys are byte sequences built exactly as the key        *)
(* helpers build them; each subspace of the store is a function from keys  *)
(* to values; every KV interaction of a handler (a read, a range read, a   *)
(* commit) is one step of the process that runs the handler.               *)
(***************************************************************************)
EXTENDS Integers, Sequences, FiniteSets, TLC

VARIABLES
    db,        \* the store: one function key -> value per subspace
    clock,     \* now_ms()
    version,   \* the commit version the next versionstamp is made of
    proc,      \* per process: the handler it runs, its position and locals
    popLog,    \* history: the jobs pop_next_job calls have returned, in order
    released,  \* history: jobIds release_job was committed for
    issued,    \* history: the queue-key handles pop_next_job has returned
    doneTrue,  \* history: handle -> number of complete_job calls that returned true
    pushed,    \* history: jobIds push_job was committed for
    calls      \* history: number of handler calls started

vars == <<db, clock, version, proc, popLog, released, issued, doneTrue, pushed, calls>>

hist == <<popLog, released, issued, doneTrue, pushed>>

-----------------------------------------------------------------------------
(* Bounds of the model *)

MaxTime == 2       \* the clock runs 0..MaxTime
MaxCalls == 4      \* handler calls per behaviour

Procs == {1, 2}    \* concurrent callers
AllProcs == {1, 2, 3}

-----------------------------------------------------------------------------
(* Identifiers are UTF-8 byte strings *)

TeamIds == {<<116>>}                       \* "t"
JobIds == {<<97>>, <<98>>}                 \* "a", "b"
CrawlIds == {<<99>>}                       \* "c"
WorkerIdOf(p) == <<118 + p>>               \* "w", "x", ...

None == <<>>
Some(x) == <<x>>
IsSome(o) == o # <<>>
Unwrap(o) == o[1]

-----------------------------------------------------------------------------
(* Key codec *)

QUEUE_PREFIX == <<1>>
CRAWL_INDEX_PREFIX == <<2>>
COUNTER_PREFIX == <<3>>
ACTIVE_PREFIX == <<4>>
ACTIVE_CRAWL_PREFIX == <<5>>
TTL_INDEX_PREFIX == <<6>>
CLAIMS_PREFIX == <<7>>

COUNTER_TEAM == <<1>>
COUNTER_CRAWL == <<2>>
COUNTER_ACTIVE_TEAM == <<3>>
COUNTER_ACTIVE_CRAWL == <<4>>

\* n.to_be_bytes() of a w-byte two's-complement integer
RECURSIVE ToBE(_, _)
ToBE(n, w) == IF w = 0 THEN <<>> ELSE ToBE(n \div 256, w - 1) \o <<n % 256>>

\* (s.len() as u32).to_be_bytes() followed by the bytes of s
LenPrefixed(s) == ToBE(Len(s), 4) \o s

\* the unsigned value of the first n bytes of b, big-endian
RECURSIVE FromBEPrefix(_, _)
FromBEPrefix(b, n) == IF n = 0 THEN 0 ELSE FromBEPrefix(b, n - 1) * 256 + b[n]

FromBEUnsigned(b) == FromBEPrefix(b, Len(b))

\* variants of the queue key: the creation time ahead of the priority, and
\* the job id without its length
build_queue_key_CreatedFirst(team_id, priority, created_at, job_id) ==
    QUEUE_PREFIX \o LenPrefixed(team_id) \o ToBE(created_at, 8) \o ToBE(priority, 4)
        \o LenPrefixed(job_id)

build_queue_key_PlainId(team_id, priority, created_at, job_id) ==
    QUEUE_PREFIX \o LenPrefixed(team_id) \o ToBE(priority, 4) \o ToBE(created_at, 8)
        \o job_id

build_queue_key(team_id, priority, created_at, job_id) ==
    QUEUE_PREFIX \o LenPrefixed(team_id) \o ToBE(priority, 4) \o ToBE(created_at, 8)
        \o LenPrefixed(job_id)

build_queue_prefix(team_id) == QUEUE_PREFIX \o LenPrefixed(team_id)

build_crawl_index_key(crawl_id, job_id) ==
    CRAWL_INDEX_PREFIX \o LenPrefixed(crawl_id) \o LenPrefixed(job_id)

build_crawl_index_prefix(crawl_id) == CRAWL_INDEX_PREFIX \o LenPrefixed(crawl_id)

build_counter_key(counter_type, id) == COUNTER_PREFIX \o counter_type \o LenPrefixed(id)

build_counter_prefix(counter_type) == COUNTER_PREFIX \o counter_type

build_active_key(team_id, job_id) ==
    ACTIVE_PREFIX \o LenPrefixed(team_id) \o LenPrefixed(job_id)

build_active_prefix(team_id) == ACTIVE_PREFIX \o LenPrefixed(team_id)

build_active_crawl_key(crawl_id, job_id) ==
    ACTIVE_CRAWL_PREFIX \o LenPrefixed(crawl_id) \o LenPrefixed(job_id)

build_active_crawl_prefix(crawl_id) == ACTIVE_CRAWL_PREFIX \o LenPrefixed(crawl_id)

build_ttl_index_key(expires_at, team_id, job_id) ==
    TTL_INDEX_PREFIX \o ToBE(expires_at, 8) \o LenPrefixed(team_id) \o LenPrefixed(job_id)

build_ttl_index_prefix_until(expires_at) == TTL_INDEX_PREFIX \o ToBE(expires_at, 8)

build_claims_prefix(job_id) == CLAIMS_PREFIX \o LenPrefixed(job_id)

\* The 10 bytes the store puts in place of the placeholder at commit: the
\* 8-byte commit version and the 2-byte order of the transaction in its batch.
Versionstamp(v) == ToBE(v, 8) \o <<0, 0>>

\* a claim key made of the job id alone
build_claim_key_PerJob(job_id, worker_id, v) == CLAIMS_PREFIX \o LenPrefixed(job_id)

\* a claim key with the worker id in front of the versionstamp
build_claim_key_WorkerFirst(job_id, worker_id, v) ==
    CLAIMS_PREFIX \o LenPrefixed(job_id) \o LenPrefixed(worker_id) \o Versionstamp(v)

\* The key of a claim as it is stored once the transaction has committed at
\* version v: build_claim_key_with_versionstamp with the placeholder replaced
\* and the 4-byte offset suffix removed.
build_claim_key_with_versionstamp(job_id, worker_id, v) ==
    CLAIMS_PREFIX \o LenPrefixed(job_id) \o Versionstamp(v) \o LenPrefixed(worker_id)

next_key(key) == key \o <<0>>

end_key(prefix) == prefix \o <<255>>

-----------------------------------------------------------------------------
(* Ordered byte keys and range reads *)

MinOf(S) == CHOOSE x \in S : \A y \in S : x <= y

\* a < b in the lexicographic order of byte strings
KeyLess(a, b) ==
    LET n == IF Len(a) < Len(b) THEN Len(a) ELSE Len(b)
        d == {i \in 1..n : a[i] # b[i]}
    IN  IF d = {} THEN Len(a) < Len(b) ELSE a[MinOf(d)] < b[MinOf(d)]

\* the first limit keys of S in ascending order: the first half of them, then
\* the first of the keys that are left
RECURSIVE FirstKeys(_, _)
FirstKeys(S, limit) ==
    IF S = {} \/ limit = 0 THEN <<>>
    ELSE IF limit = 1 THEN <<CHOOSE k \in S : \A o \in S : o = k \/ KeyLess(k, o)>>
    ELSE IF limit > Cardinality(S) THEN FirstKeys(S, Cardinality(S))
    ELSE LET first == FirstKeys(S, limit \div 2)
         IN  first \o FirstKeys(S \ {first[i] : i \in 1..Len(first)}, limit - limit \div 2)

InRange(k, begin, end) == ~KeyLess(k, begin) /\ KeyLess(k, end)

\* trx.get_range(begin..end, limit): the keys of f in [begin, end), ascending,
\* at most limit of them
GetRange(f, begin, end, limit) ==
    FirstKeys({k \in DOMAIN f : InRange(k, begin, end)}, limit)

Set(f, k, v) == [x \in DOMAIN f \cup {k} |-> IF x = k THEN v ELSE f[x]]

Clear(f, k) == [x \in DOMAIN f \ {k} |-> f[x]]

ClearRange(f, begin, end) == [x \in {k \in DOMAIN f : ~InRange(k, begin, end)} |-> f[x]]

\* d, evaluated here and now: a fold that passes its accumulator on unevaluated
\* nests as deep as it is long
Evaluated(d) == d = d

\* MutationType::Add on a little-endian i64: a missing key counts as 0
AtomicAdd(f, k, delta) == Set(f, k, (IF k \in DOMAIN f THEN f[k] ELSE 0) + delta)

\* trx.get(key).map(decode_i64_le).unwrap_or(0)
CounterValue(f, k) == IF k \in DOMAIN f THEN f[k] ELSE 0

-----------------------------------------------------------------------------
(* Base64 (the STANDARD engine): text is a sequence of alphabet positions  *)
(* 0..63, with 64 for the padding character '='                            *)

PAD == 64

\* the text of the bytes of b from position i on
RECURSIVE B64EncodeFrom(_, _)
B64EncodeFrom(b, i) ==
    IF Len(b) < i THEN <<>>
    ELSE IF Len(b) = i THEN <<b[i] \div 4, (b[i] % 4) * 16, PAD, PAD>>
    ELSE IF Len(b) = i + 1
         THEN <<b[i] \div 4, (b[i] % 4) * 16 + (b[i + 1] \div 16), (b[i + 1] % 16) * 4, PAD>>
    ELSE <<b[i] \div 4, (b[i] % 4) * 16 + (b[i + 1] \div 16),
           (b[i + 1] % 16) * 4 + (b[i + 2] \div 64), b[i + 2] % 64>>
         \o B64EncodeFrom(b, i + 3)

B64Encode(b) == B64EncodeFrom(b, 1)

\* the bytes of one group of four symbols, or None when the group is invalid
B64Group(g, last) ==
    IF g[1] > 63 \/ g[2] > 63 THEN None
    ELSE IF g[3] = PAD
         THEN IF last /\ g[4] = PAD /\ g[2] % 16 = 0
              THEN Some(<<g[1] * 4 + (g[2] \div 16)>>) ELSE None
    ELSE IF g[3] > 63 THEN None
    ELSE IF g[4] = PAD
         THEN IF last /\ g[3] % 4 = 0
              THEN Some(<<g[1] * 4 + (g[2] \div 16), (g[2] % 16) * 16 + (g[3] \div 4)>>)
              ELSE None
    ELSE IF g[4] > 63 THEN None
    ELSE Some(<<g[1] * 4 + (g[2] \div 16), (g[2] % 16) * 16 + (g[3] \div 4),
                (g[3] % 4) * 64 + g[4]>>)

\* the bytes of the groups from the i-th on
RECURSIVE B64Concat(_, _)
B64Concat(groups, i) ==
    IF i > Len(groups) THEN <<>> ELSE Unwrap(groups[i]) \o B64Concat(groups, i + 1)

\* a decode that yields the empty key for text that is not valid base64
B64Decode_OrEmpty(s) ==
    LET groups == [i \in 1..(Len(s) \div 4) |->
                      B64Group(SubSeq(s, 4 * i - 3, 4 * i), 4 * i = Len(s))]
    IN  IF Len(s) % 4 = 0 /\ \A i \in 1..Len(groups) : IsSome(groups[i])
        THEN Some(B64Concat(groups, 1)) ELSE Some(<<>>)

\* BASE64.decode(text): Some(bytes), or None for text that is not valid base64
B64Decode(s) ==
    IF Len(s) % 4 # 0 THEN None
    ELSE LET groups == [i \in 1..(Len(s) \div 4) |->
                           B64Group(SubSeq(s, 4 * i - 3, 4 * i), 4 * i = Len(s))]
         IN  IF \A i \in 1..Len(groups) : IsSome(groups[i])
             THEN Some(B64Concat(groups, 1)) ELSE None

-----------------------------------------------------------------------------
(* The store and the transactions of the handlers, as functions of the store *)

EmptyMap == [k \in {} |-> 0]

EmptyDb ==
    [queue |-> EmptyMap, crawlIndex |-> EmptyMap, counters |-> EmptyMap,
     active |-> EmptyMap, activeCrawl |-> EmptyMap, ttlIndex |-> EmptyMap,
     claims |-> EmptyMap]

NoJob == [id |-> <<>>, teamId |-> <<>>, priority |-> 0, createdAt |-> 0,
          timesOutAt |-> None, crawlId |-> None]

\* FdbQueueJob as push_job builds it (data, listenable and listen_channel_id
\* are carried along and never read by the engine)
\* MakeJob with has_timeout decided by the timeout alone, whatever the crawl
MakeJob_CrawlTimeout(now, team_id, job_id, priority, timeout, crawl_id) ==
    [id |-> job_id, teamId |-> team_id, priority |-> priority, createdAt |-> now,
     timesOutAt |-> IF IsSome(timeout) /\ Unwrap(timeout) > 0
                    THEN Some(now + Unwrap(timeout)) ELSE None,
     crawlId |-> crawl_id]

MakeJob(now, team_id, job_id, priority, timeout, crawl_id) ==
    LET has_timeout == crawl_id = None /\ IsSome(timeout) /\ Unwrap(timeout) > 0
    IN  [id |-> job_id, teamId |-> team_id, priority |-> priority, createdAt |-> now,
         timesOutAt |-> IF has_timeout THEN Some(now + Unwrap(timeout)) ELSE None,
         crawlId |-> crawl_id]

\* a push_job that counts the job before its record is written: the +1 on the
\* team-queued counter committed by a transaction of its own
PushTx_CountFirst(d, now, team_id, job_id, priority, timeout, crawl_id) ==
    [d EXCEPT !.counters = AtomicAdd(@, build_counter_key(COUNTER_TEAM, team_id), 1)]

\* the transaction push_job commits
PushTx(d, now, team_id, job_id, priority, timeout, crawl_id) ==
    LET job == MakeJob(now, team_id, job_id, priority, timeout, crawl_id)
        queue_key == build_queue_key(team_id, priority, now, job_id)
        d1 == [d EXCEPT !.queue = Set(@, queue_key, job),
                        !.counters = AtomicAdd(@, build_counter_key(COUNTER_TEAM, team_id), 1)]
        d2 == IF IsSome(job.timesOutAt)
              THEN [d1 EXCEPT !.ttlIndex =
                        Set(@, build_ttl_index_key(Unwrap(job.timesOutAt), team_id, job_id),
                            [priority |-> priority, createdAt |-> now, crawlId |-> crawl_id])]
              ELSE d1
    IN  IF IsSome(crawl_id)
        THEN [d2 EXCEPT !.crawlIndex =
                            Set(@, build_crawl_index_key(Unwrap(crawl_id), job_id),
                                [teamId |-> team_id, priority |-> priority, createdAt |-> now]),
                        !.counters =
                            AtomicAdd(@, build_counter_key(COUNTER_CRAWL, Unwrap(crawl_id)), 1)]
        ELSE d2

\* pop_next_job's scan: the range read of the team's queue prefix, as (key, job) pairs
POP_SCAN_LIMIT == 100

PopRange(d, team_id) ==
    LET start_key == build_queue_prefix(team_id)
        keys == GetRange(d.queue, start_key, end_key(start_key), POP_SCAN_LIMIT)
    IN  [i \in 1..Len(keys) |-> [key |-> keys[i], job |-> d.queue[keys[i]]]]

IsExpired(job, now) == IsSome(job.timesOutAt) /\ Unwrap(job.timesOutAt) < now

IsBlocked(job, blocked_crawl_ids) ==
    IsSome(job.crawlId) /\ Unwrap(job.crawlId) \in blocked_crawl_ids

PopExpired(range, now) == SelectSeq(range, LAMBDA kv : IsExpired(kv.job, now))

\* a candidate filter that lets the jobs of blocked crawls through
PopCandidates_AnyCrawl(range, now, blocked_crawl_ids) ==
    SelectSeq(range, LAMBDA kv : ~IsExpired(kv.job, now))

PopCandidates(range, now, blocked_crawl_ids) ==
    SelectSeq(range, LAMBDA kv : ~IsExpired(kv.job, now) /\ ~IsBlocked(kv.job, blocked_crawl_ids))

\* a cleanup that clears the claims of the expired job with its record
CleanupOne_AndClaims(d, team_id, kv) ==
    LET claims_prefix == build_claims_prefix(kv.job.id)
    IN  [d EXCEPT !.queue = Clear(@, kv.key),
                  !.counters = AtomicAdd(@, build_counter_key(COUNTER_TEAM, team_id), -1),
                  !.claims = [k \in {c \in DOMAIN @ :
                                         ~InRange(c, claims_prefix, end_key(claims_prefix))}
                                |-> @[k]]]

\* the clears and decrements pop_next_job's cleanup transaction makes for one expired job
CleanupOne(d, team_id, kv) ==
    LET d1 == [d EXCEPT !.queue = Clear(@, kv.key),
                        !.counters = AtomicAdd(@, build_counter_key(COUNTER_TEAM, team_id), -1)]
        d2 == IF IsSome(kv.job.timesOutAt)
              THEN [d1 EXCEPT !.ttlIndex =
                        Clear(@, build_ttl_index_key(Unwrap(kv.job.timesOutAt), team_id, kv.job.id))]
              ELSE d1
    IN  IF IsSome(kv.job.crawlId)
        THEN [d2 EXCEPT !.crawlIndex =
                            Clear(@, build_crawl_index_key(Unwrap(kv.job.crawlId), kv.job.id)),
                        !.counters =
                            AtomicAdd(@, build_counter_key(COUNTER_CRAWL, Unwrap(kv.job.crawlId)), -1)]
        ELSE d2

RECURSIVE PopCleanupTx(_, _, _)
PopCleanupTx(d, team_id, expired_jobs) ==
    IF expired_jobs = <<>> \/ ~Evaluated(d) THEN d
    ELSE PopCleanupTx(CleanupOne(d, team_id, Head(expired_jobs)), team_id, Tail(expired_jobs))

\* get_range(claims_prefix..claims_end, 1): the first claim stored for the job, if any
FirstClaim(d, job_id) ==
    LET claims_prefix == build_claims_prefix(job_id)
    IN  GetRange(d.claims, claims_prefix, end_key(claims_prefix), 1)

\* the claim transaction, committed at version v
ClaimTx(d, v, job_id, worker_id, queue_key, now) ==
    [d EXCEPT !.claims =
        Set(@, build_claim_key_with_versionstamp(job_id, worker_id, v),
            [workerId |-> worker_id, queueKey |-> B64Encode(queue_key), claimedAt |-> now])]

\* a verify step that is satisfied by any claim of the worker for the job
IsWinner_AnyClaim(d, job_id, worker_id) ==
    LET claims_prefix == build_claims_prefix(job_id)
    IN  \E k \in DOMAIN d.claims :
            InRange(k, claims_prefix, end_key(claims_prefix)) /\ d.claims[k].workerId = worker_id

\* the verify step: whether the first claim stored for the job names worker_id
IsWinner(d, job_id, worker_id) ==
    LET all_claims == FirstClaim(d, job_id)
    IN  all_claims # <<>> /\ d.claims[all_claims[1]].workerId = worker_id

\* a release_job that clears the first claim of the job only
ReleaseTx_FirstOnly(d, job_id) ==
    LET first == FirstClaim(d, job_id)
    IN  IF first = <<>> THEN d ELSE [d EXCEPT !.claims = Clear(@, first[1])]

\* the transaction release_job commits
ReleaseTx(d, job_id) ==
    LET claims_prefix == build_claims_prefix(job_id)
    IN  [d EXCEPT !.claims = ClearRange(@, claims_prefix, end_key(claims_prefix))]

\* trx.get(&queue_key) of complete_job: the job stored under the key, if any
GetJob_Default(d, queue_key) ==
    Some(IF queue_key \in DOMAIN d.queue THEN d.queue[queue_key] ELSE NoJob)

GetJob(d, queue_key) ==
    IF queue_key \in DOMAIN d.queue THEN Some(d.queue[queue_key]) ELSE None

\* a complete_job that leaves the claims to a later transaction
CompleteTx_KeepsClaims(d, queue_key, job) ==
    LET d1 == [d EXCEPT !.queue = Clear(@, queue_key),
                        !.counters = AtomicAdd(@, build_counter_key(COUNTER_TEAM, job.teamId), -1)]
        d2 == IF IsSome(job.timesOutAt)
              THEN [d1 EXCEPT !.ttlIndex =
                        Clear(@, build_ttl_index_key(Unwrap(job.timesOutAt), job.teamId, job.id))]
              ELSE d1
    IN  IF IsSome(job.crawlId)
        THEN [d2 EXCEPT !.crawlIndex =
                            Clear(@, build_crawl_index_key(Unwrap(job.crawlId), job.id)),
                        !.counters =
                            AtomicAdd(@, build_counter_key(COUNTER_CRAWL, Unwrap(job.crawlId)), -1)]
        ELSE d2

\* a complete_job that decrements the crawl counter and leaves the crawl-index
\* entry in place
CompleteTx_KeepsCrawlIndex(d, queue_key, job) ==
    LET d1 == [d EXCEPT !.queue = Clear(@, queue_key),
                        !.counters = AtomicAdd(@, build_counter_key(COUNTER_TEAM, job.teamId), -1)]
        d2 == IF IsSome(job.timesOutAt)
              THEN [d1 EXCEPT !.ttlIndex =
                        Clear(@, build_ttl_index_key(Unwrap(job.timesOutAt), job.teamId, job.id))]
              ELSE d1
        d3 == IF IsSome(job.crawlId)
              THEN [d2 EXCEPT !.counters =
                                  AtomicAdd(@, build_counter_key(COUNTER_CRAWL, Unwrap(job.crawlId)), -1)]
              ELSE d2
        claims_prefix == build_claims_prefix(job.id)
    IN  [d3 EXCEPT !.claims = ClearRange(@, claims_prefix, end_key(claims_prefix))]

\* the second transaction of complete_job, built from the job the first one read
CompleteTx(d, queue_key, job) ==
    LET d1 == [d EXCEPT !.queue = Clear(@, queue_key),
                        !.counters = AtomicAdd(@, build_counter_key(COUNTER_TEAM, job.teamId), -1)]
        d2 == IF IsSome(job.timesOutAt)
              THEN [d1 EXCEPT !.ttlIndex =
                        Clear(@, build_ttl_index_key(Unwrap(job.timesOutAt), job.teamId, job.id))]
              ELSE d1
        d3 == IF IsSome(job.crawlId)
              THEN [d2 EXCEPT !.crawlIndex =
                                  Clear(@, build_crawl_index_key(Unwrap(job.crawlId), job.id)),
                              !.counters =
                                  AtomicAdd(@, build_counter_key(COUNTER_CRAWL, Unwrap(job.crawlId)), -1)]
              ELSE d2
        claims_prefix == build_claims_prefix(job.id)
    IN  [d3 EXCEPT !.claims = ClearRange(@, claims_prefix, end_key(claims_prefix))]

\* one batch of clean_expired_jobs: the TTL entries it reads (lines 841-849)
BATCH_LIMIT == 100

ExpiredBatch(d, now) ==
    GetRange(d.ttlIndex, TTL_INDEX_PREFIX, build_ttl_index_prefix_until(now), BATCH_LIMIT)

\* whether clean_expired_jobs can parse a TTL key (lines 862-864)
TtlKeyParses(key) ==
    /\ Len(key) > 13
    /\ Len(key) > 13 + FromBEUnsigned(SubSeq(key, 10, 13)) + 4

TtlTeamId(key) == SubSeq(key, 14, 13 + FromBEUnsigned(SubSeq(key, 10, 13)))

TtlJobId(key) == SubSeq(key, 13 + FromBEUnsigned(SubSeq(key, 10, 13)) + 4 + 1, Len(key))

\* what clean_expired_jobs does for one TTL entry (lines 858-888)
SweepOne(d, key) ==
    IF ~TtlKeyParses(key) THEN d
    ELSE LET ttl_data == d.ttlIndex[key]
             team_id == TtlTeamId(key)
             job_id == TtlJobId(key)
             queue_key == build_queue_key(team_id, ttl_data.priority, ttl_data.createdAt, job_id)
             d1 == [d EXCEPT !.queue = Clear(@, queue_key),
                             !.counters =
                                 AtomicAdd(@, build_counter_key(COUNTER_TEAM, team_id), -1)]
             d2 == IF IsSome(ttl_data.crawlId)
                   THEN [d1 EXCEPT !.crawlIndex =
                                       Clear(@, build_crawl_index_key(Unwrap(ttl_data.crawlId), job_id)),
                                   !.counters =
                                       AtomicAdd(@, build_counter_key(COUNTER_CRAWL,
                                                                      Unwrap(ttl_data.crawlId)), -1)]
                   ELSE d1
         IN  [d2 EXCEPT !.ttlIndex = Clear(@, key)]

RECURSIVE SweepTx(_, _)
SweepTx(d, batch) ==
    IF batch = <<>> \/ ~Evaluated(d) THEN d
    ELSE SweepTx(SweepOne(d, Head(batch)), Tail(batch))

\* the number of entries of a batch that clean_expired_jobs counts as cleaned
SweepCount(batch) == Len(SelectSeq(batch, TtlKeyParses))

\* clean_orphaned_claims: the claims one batch reads (lines 585-590)
ClaimsBatch(d) == GetRange(d.claims, CLAIMS_PREFIX, end_key(CLAIMS_PREFIX), BATCH_LIMIT)

\* whether clean_orphaned_claims keeps a claim key for checking (lines 609-611)
ClaimKeyParses(key) ==
    /\ Len(key) > 5 + 10
    /\ Len(key) >= 5 + FromBEUnsigned(SubSeq(key, 2, 5)) + 10

\* claims_to_check: the claim keys with the queue key decoded from the value
ClaimsToCheck(d, batch) ==
    LET kept == SelectSeq(batch, ClaimKeyParses)
    IN  [i \in 1..Len(kept) |->
            [claim_key |-> kept[i], queue_key |-> B64Decode(d.claims[kept[i]].queueKey)]]

\* the claims whose queue record the check transaction does not find (lines 634-647)
Orphans(d, claims_to_check) ==
    SelectSeq(claims_to_check,
              LAMBDA c : ~IsSome(c.queue_key) \/ Unwrap(c.queue_key) \notin DOMAIN d.queue)

\* the cleanup transaction of clean_orphaned_claims (lines 657-661)
RECURSIVE OrphanTx(_, _)
OrphanTx(d, orphans) ==
    IF orphans = <<>> \/ ~Evaluated(d) THEN d
    ELSE OrphanTx([d EXCEPT !.claims = Clear(@, Head(orphans).claim_key)], Tail(orphans))

-----------------------------------------------------------------------------
(* Processes: each caller runs one handler at a time, one KV interaction per step *)

Priorities == {1}
Timeouts == {None, Some(1)}
CrawlOptions == {None} \cup {Some(c) : c \in CrawlIds}

IdleProc ==
    [pc |-> "idle", op |-> "none", team |-> <<>>, worker |-> <<>>, blocked |-> {},
     now |-> 0, cands |-> <<>>, expired |-> <<>>, key |-> <<>>, job |-> NoJob,
     ret |-> "none", retJob |-> NoJob, retKey |-> <<>>,
     iter |-> 0, cleaned |-> 0, batchCount |-> 0, toCheck |-> <<>>,
     arg |-> <<>>, flip |-> 0, correction |-> 0]

\* the handler has returned: ret is its result
Return(l, ret) ==
    [IdleProc EXCEPT !.pc = "done", !.op = l.op, !.arg = l.arg, !.flip = l.flip, !.ret = ret,
                     !.team = l.team, !.blocked = l.blocked, !.now = l.now]

\* the locals of a handler p starts; flip tells its calls apart
Call(p, op) == [IdleProc EXCEPT !.op = op, !.flip = 1 - proc[p].flip]

\* a caller is free to start a handler
Ready(p) == proc[p].pc \in {"idle", "done"} /\ calls < MaxCalls

Bump(f, k) == Set(f, k, (IF k \in DOMAIN f THEN f[k] ELSE 0) + 1)

Count(f, k) == IF k \in DOMAIN f THEN f[k] ELSE 0

Tick ==
    /\ clock < MaxTime
    /\ clock' = clock + 1
    /\ UNCHANGED <<db, version, proc, hist, calls>>

\* job ids are unique to a job: a caller pushes the first id not pushed yet
FreshJobIds ==
    LET free == JobIds \ pushed
    IN  {j \in free : \A o \in free \ {j} : KeyLess(LenPrefixed(j), LenPrefixed(o))}

\* push_job: one transaction, built and committed without an await in between
PushJob(p) ==
    /\ Ready(p)
    /\ calls' = calls + 1
    /\ \E team_id \in TeamIds, job_id \in FreshJobIds, priority \in Priorities,
          timeout \in Timeouts, crawl_id \in CrawlOptions :
          /\ db' = PushTx(db, clock, team_id, job_id, priority, timeout, crawl_id)
          /\ proc' = [proc EXCEPT ![p] =
                        Return([Call(p, "push_job") EXCEPT !.arg = job_id], "Ok")]
          /\ pushed' = pushed \cup {job_id}
    /\ UNCHANGED <<clock, version, popLog, released, issued, doneTrue>>

\* pop_next_job up to the end of its scan loop (lines 345-384)
PopScanAs(p, worker_ids) ==
    /\ Ready(p)
    /\ calls' = calls + 1
    /\ \E team_id \in TeamIds, worker_id \in worker_ids, blocked_crawl_ids \in SUBSET CrawlIds :
          LET range == PopRange(db, team_id)
              candidates == PopCandidates(range, clock, blocked_crawl_ids)
              expired_jobs == PopExpired(range, clock)
              l == [Call(p, "pop_next_job") EXCEPT !.team = team_id,
                                    !.worker = worker_id, !.blocked = blocked_crawl_ids,
                                    !.now = clock]
          IN  proc' = [proc EXCEPT ![p] =
                  IF range = <<>> THEN Return(l, "None")
                  ELSE IF expired_jobs # <<>>
                       THEN [l EXCEPT !.pc = "pop_cleanup", !.cands = candidates,
                                      !.expired = expired_jobs]
                  ELSE IF candidates = <<>> THEN Return(l, "None")
                  ELSE [l EXCEPT !.pc = "pop_probe", !.cands = candidates]]
    /\ UNCHANGED <<db, clock, version, hist>>

\* every caller pops under a worker id of its own
PopScan(p) == PopScanAs(p, {WorkerIdOf(p)})

\* the best-effort cleanup transaction of the expired jobs (lines 386-411)
PopCleanup(p) ==
    /\ proc[p].pc = "pop_cleanup"
    /\ db' = PopCleanupTx(db, proc[p].team, proc[p].expired)
    /\ proc' = [proc EXCEPT ![p] =
            IF proc[p].cands = <<>> THEN Return(proc[p], "None")
            ELSE [proc[p] EXCEPT !.pc = "pop_probe", !.expired = <<>>]]
    /\ UNCHANGED <<clock, version, hist, calls>>

\* `continue` in the candidate loop; falling out of the loop returns Ok(None)
NextCandidate(l) ==
    IF Len(l.cands) <= 1 THEN Return(l, "None")
    ELSE [l EXCEPT !.pc = "pop_probe", !.cands = Tail(@)]

\* the probe for existing claims of the current candidate (lines 415-430)
PopProbe(p) ==
    /\ proc[p].pc = "pop_probe"
    /\ proc' = [proc EXCEPT ![p] =
            IF FirstClaim(db, Head(proc[p].cands).job.id) # <<>>
            THEN NextCandidate(proc[p])
            ELSE [proc[p] EXCEPT !.pc = "pop_claim"]]
    /\ UNCHANGED <<db, clock, version, hist, calls>>

\* the claim transaction's commit (lines 432-449)
PopClaim(p) ==
    /\ proc[p].pc = "pop_claim"
    /\ LET kv == Head(proc[p].cands)
       IN  db' = ClaimTx(db, version, kv.job.id, proc[p].worker, kv.key, proc[p].now)
    /\ version' = version + 1
    /\ proc' = [proc EXCEPT ![p].pc = "pop_verify"]
    /\ UNCHANGED <<clock, hist, calls>>

\* the read of the first claim and the decision (lines 451-491)
PopVerify(p) ==
    /\ proc[p].pc = "pop_verify"
    /\ LET kv == Head(proc[p].cands)
           won == IsWinner(db, kv.job.id, proc[p].worker)
       IN  /\ proc' = [proc EXCEPT ![p] =
                  IF won
                  THEN [Return(proc[p], "Some") EXCEPT !.retJob = kv.job,
                                                      !.retKey = B64Encode(kv.key)]
                  ELSE NextCandidate(proc[p])]
           /\ popLog' = IF won THEN Append(popLog, kv.job) ELSE popLog
           /\ issued' = IF won THEN issued \cup {B64Encode(kv.key)} ELSE issued
    /\ UNCHANGED <<db, clock, version, released, doneTrue, pushed, calls>>

\* release_job: one transaction
ReleaseJob(p) ==
    /\ Ready(p)
    /\ calls' = calls + 1
    /\ \E job_id \in JobIds :
          /\ db' = ReleaseTx(db, job_id)
          /\ proc' = [proc EXCEPT ![p] =
                        Return([Call(p, "release_job") EXCEPT !.arg = job_id], "Ok")]
          /\ released' = released \cup {job_id}
    /\ UNCHANGED <<clock, version, popLog, issued, doneTrue, pushed>>

\* complete_job up to the read of the queue record (lines 518-532), called
\* with one of the given handles; a handle that does not decode makes it return
\* FdbError::Other before it opens a transaction
CompleteReadOf(p, handles) ==
    /\ Ready(p)
    /\ calls' = calls + 1
    /\ \E queue_key_b64 \in handles :
          LET decoded == B64Decode(queue_key_b64)
              l == [Call(p, "complete_job") EXCEPT !.arg = queue_key_b64]
          IN  proc' = [proc EXCEPT ![p] =
                  IF ~IsSome(decoded) THEN Return(l, "Other")
                  ELSE IF ~IsSome(GetJob(db, Unwrap(decoded))) THEN Return(l, "false")
                  ELSE [l EXCEPT !.pc = "complete_commit", !.key = Unwrap(decoded),
                                 !.job = Unwrap(GetJob(db, Unwrap(decoded)))]]
    /\ UNCHANGED <<db, clock, version, hist>>

\* complete_job called with a handle a pop has returned
CompleteRead(p) == CompleteReadOf(p, issued)

\* complete_job's second transaction and its commit (lines 534-571)
CompleteCommit(p) ==
    /\ proc[p].pc = "complete_commit"
    /\ db' = CompleteTx(db, proc[p].key, proc[p].job)
    /\ proc' = [proc EXCEPT ![p] = [Return(proc[p], "true") EXCEPT !.retJob = proc[p].job]]
    /\ doneTrue' = Bump(doneTrue, proc[p].arg)
    /\ UNCHANGED <<clock, version, popLog, released, issued, pushed, calls>>

\* get_team_queue_count: the stored counter, 0 when the key is missing
get_team_queue_count(d, team_id) ==
    CounterValue(d.counters, build_counter_key(COUNTER_TEAM, team_id))

\* get_crawl_queue_count: the stored counter, 0 when the key is missing
get_crawl_queue_count(d, crawl_id) ==
    CounterValue(d.counters, build_counter_key(COUNTER_CRAWL, crawl_id))

MAX_BATCHES == 10

\* clean_expired_jobs: every batch is one transaction that reads the TTL
\* range and commits the clears (lines 836-900)
CleanExpiredEnter(p) ==
    /\ proc' = [proc EXCEPT ![p] =
            [Call(p, "clean_expired_jobs") EXCEPT !.pc = "sweep_batch", !.now = clock]]
    /\ UNCHANGED <<db, clock, version, hist>>

CleanExpiredStart(p) ==
    /\ Ready(p)
    /\ calls' = calls + 1
    /\ CleanExpiredEnter(p)

CleanExpiredBatch(p) ==
    /\ proc[p].pc = "sweep_batch"
    /\ \E batch \in {ExpiredBatch(db, proc[p].now)} :
       LET cleaned == proc[p].cleaned + SweepCount(batch)
       IN  /\ db' = SweepTx(db, batch)
           /\ proc' = [proc EXCEPT ![p] =
                  IF batch = <<>> \/ Len(batch) < BATCH_LIMIT \/ proc[p].iter + 1 >= MAX_BATCHES
                  THEN [Return(proc[p], "Ok") EXCEPT !.cleaned = cleaned]
                  ELSE [proc[p] EXCEPT !.iter = @ + 1, !.cleaned = cleaned]]
    /\ UNCHANGED <<clock, version, hist, calls>>

\* clean_orphaned_claims: the range read of a batch of claims (lines 584-628)
OrphanRead(p) ==
    /\ \E batch \in {ClaimsBatch(db)} :
       \E claims_to_check \in {ClaimsToCheck(db, batch)} :
       LET l == IF proc[p].pc = "orphan_scan" THEN proc[p]
                ELSE Call(p, "clean_orphaned_claims")
       IN  proc' = [proc EXCEPT ![p] =
               IF batch = <<>> \/ claims_to_check = <<>>
               THEN [Return(l, "Ok") EXCEPT !.cleaned = l.cleaned]
               ELSE [l EXCEPT !.pc = "orphan_check", !.batchCount = Len(batch),
                              !.toCheck = claims_to_check]]
    /\ UNCHANGED <<db, clock, version, hist>>

OrphanScan(p) ==
    /\ \/ Ready(p) /\ calls' = calls + 1
       \/ proc[p].pc = "orphan_scan" /\ calls' = calls
    /\ OrphanRead(p)

\* the end of one pass of the batch loop: leave it, or go round again
OrphanLoop(l) ==
    IF l.batchCount < BATCH_LIMIT \/ l.iter + 1 >= MAX_BATCHES
    THEN [Return(l, "Ok") EXCEPT !.cleaned = l.cleaned]
    ELSE [l EXCEPT !.pc = "orphan_scan", !.iter = @ + 1, !.toCheck = <<>>]

\* the reads of the check transaction, all at its one read version (lines 630-654)
OrphanCheck(p) ==
    /\ proc[p].pc = "orphan_check"
    /\ LET orphans == Orphans(db, proc[p].toCheck)
       IN  proc' = [proc EXCEPT ![p] =
               IF orphans = <<>> THEN OrphanLoop(proc[p])
               ELSE [proc[p] EXCEPT !.pc = "orphan_commit", !.toCheck = orphans]]
    /\ UNCHANGED <<db, clock, version, hist, calls>>

\* the cleanup transaction's commit (lines 656-667)
OrphanCommit(p) ==
    /\ proc[p].pc = "orphan_commit"
    /\ db' = OrphanTx(db, proc[p].toCheck)
    /\ proc' = [proc EXCEPT ![p] =
            OrphanLoop([proc[p] EXCEPT !.cleaned = @ + Len(proc[p].toCheck)])]
    /\ UNCHANGED <<clock, version, hist, calls>>

-----------------------------------------------------------------------------
(* The engine under concurrent callers *)

Init ==
    /\ db = EmptyDb
    /\ clock = 0
    /\ version = 0
    /\ proc = [p \in AllProcs |-> IdleProc]
    /\ popLog = <<>>
    /\ released = {}
    /\ issued = {}
    /\ doneTrue = EmptyMap
    /\ pushed = {}
    /\ calls = 0

Next ==
    \/ Tick
    \/ \E p \in Procs : PushJob(p)
    \/ \E p \in Procs : PopScan(p)
    \/ \E p \in Procs : PopCleanup(p)
    \/ \E p \in Procs : PopProbe(p)
    \/ \E p \in Procs : PopClaim(p)
    \/ \E p \in Procs : PopVerify(p)
    \/ \E p \in Procs : ReleaseJob(p)
    \/ \E p \in Procs : CompleteRead(p)
    \/ \E p \in Procs : CompleteCommit(p)
    \/ \E p \in Procs : CleanExpiredStart(p)
    \/ \E p \in Procs : CleanExpiredBatch(p)
    \/ \E p \in Procs : OrphanScan(p)
    \/ \E p \in Procs : OrphanCheck(p)
    \/ \E p \in Procs : OrphanCommit(p)

Spec == Init /\ [][Next]_vars

-----------------------------------------------------------------------------
(* Queues loaded by pushes, and pops that run one after the other *)

\* the store after the pushes of a load: per job id, the push that queued it (if any)
RECURSIVE LoadDb(_, _, _)
LoadDb(d, load, ids) ==
    IF ids = {} THEN d
    ELSE LET job_id == CHOOSE j \in ids : TRUE
             x == load[job_id]
             d1 == IF IsSome(x)
                   THEN PushTx(d, Unwrap(x).at, Unwrap(x).team, job_id, Unwrap(x).priority,
                               Unwrap(x).timeout, Unwrap(x).crawl)
                   ELSE d
         IN  LoadDb(d1, load, ids \ {job_id})

InitLoaded(ids, pushes, now) ==
    /\ \E load \in [ids -> {None} \cup {Some(x) : x \in pushes}] :
          /\ db = LoadDb(EmptyDb, load, ids)
          /\ pushed = {j \in ids : IsSome(load[j])}
    /\ clock = now
    /\ version = 0
    /\ proc = [p \in AllProcs |-> IdleProc]
    /\ popLog = <<>>
    /\ released = {}
    /\ issued = {}
    /\ doneTrue = EmptyMap
    /\ calls = 0

\* no other caller is inside a handler
Alone(p) == \A q \in AllProcs \ {p} : proc[q].pc \in {"idle", "done"}

OrderJobIds == {<<97>>, <<98>>, <<97, 97>>}     \* "a", "b", "aa"
OrderPriorities == {1, 2, -16777217}
OrderPushes ==
    [team : TeamIds, priority : OrderPriorities, at : 0..1, timeout : {None}, crawl : {None}]

InitOrder == InitLoaded(OrderJobIds, OrderPushes, 1)

NextOrder ==
    \/ \E p \in Procs : Alone(p) /\ PopScan(p)
    \/ \E p \in Procs : Alone(p) /\ PopProbe(p)
    \/ \E p \in Procs : Alone(p) /\ PopClaim(p)
    \/ \E p \in Procs : Alone(p) /\ PopVerify(p)

SpecOrder == InitOrder /\ [][NextOrder]_vars

\* queues of jobs with and without a timeout and a crawl, each worker popping once
QueueJobIds == {<<97>>, <<98>>, <<97, 97>>}
QueuePushes ==
    [team : TeamIds, priority : {1}, at : {0}, timeout : {None}, crawl : CrawlOptions]
        \cup [team : TeamIds, priority : {1}, at : {0}, timeout : {Some(1)}, crawl : {None}]

InitQueue == InitLoaded(QueueJobIds, QueuePushes, 0)

\* the pops run one at a time
NextSolo ==
    \/ Tick
    \/ \E p \in AllProcs : Alone(p) /\ proc[p].pc = "idle" /\ PopScan(p)
    \/ \E p \in AllProcs : Alone(p) /\ PopCleanup(p)
    \/ \E p \in AllProcs : Alone(p) /\ PopProbe(p)
    \/ \E p \in AllProcs : Alone(p) /\ PopClaim(p)
    \/ \E p \in AllProcs : Alone(p) /\ PopVerify(p)

SpecSolo == InitQueue /\ [][NextSolo]_vars

\* the pops run concurrently, their steps interleaved in every way
NextPops ==
    \/ \E p \in AllProcs : proc[p].pc = "idle" /\ PopScan(p)
    \/ \E p \in AllProcs : PopCleanup(p)
    \/ \E p \in AllProcs : PopProbe(p)
    \/ \E p \in AllProcs : PopClaim(p)
    \/ \E p \in AllProcs : PopVerify(p)

InitPops == \E now \in {0, MaxTime} : InitLoaded(JobIds, QueuePushes, now)

SpecPops == InitPops /\ [][NextPops]_vars

-----------------------------------------------------------------------------
(* Active-job tracking, counter sampling and reconciliation *)

SampleLimit == 1      \* the limit the janitor passes to sample_*_counters
MaxWork == 3          \* calls of the workload that comes before the janitor's pass

ActiveTeamIds == {<<116>>, <<117>>}     \* "t", "u"
ActiveJobIds == {<<97>>}
ActiveTimeouts == {1}

\* the transaction of push_active_job and of push_crawl_active_job
PushActiveTx(d, now, team_id, job_id, timeout) ==
    [d EXCEPT !.active = Set(@, build_active_key(team_id, job_id), now + timeout),
              !.counters = AtomicAdd(@, build_counter_key(COUNTER_ACTIVE_TEAM, team_id), 1)]

PushCrawlActiveTx(d, now, crawl_id, job_id, timeout) ==
    [d EXCEPT !.activeCrawl = Set(@, build_active_crawl_key(crawl_id, job_id), now + timeout),
              !.counters = AtomicAdd(@, build_counter_key(COUNTER_ACTIVE_CRAWL, crawl_id), 1)]

\* the transaction of remove_active_job and of remove_crawl_active_job
RemoveActiveTx(d, team_id, job_id) ==
    LET key == build_active_key(team_id, job_id)
    IN  IF key \in DOMAIN d.active
        THEN [d EXCEPT !.active = Clear(@, key),
                       !.counters =
                           AtomicAdd(@, build_counter_key(COUNTER_ACTIVE_TEAM, team_id), -1)]
        ELSE d

RemoveCrawlActiveTx(d, crawl_id, job_id) ==
    LET key == build_active_crawl_key(crawl_id, job_id)
    IN  IF key \in DOMAIN d.activeCrawl
        THEN [d EXCEPT !.activeCrawl = Clear(@, key),
                       !.counters =
                           AtomicAdd(@, build_counter_key(COUNTER_ACTIVE_CRAWL, crawl_id), -1)]
        ELSE d

\* the ids sample_team_counters / sample_crawl_counters return: the counter keys
\* of counter_type after the one of `after`, at most limit of them, each parsed
\* for its id
SampleCounters(d, counter_type, limit, after) ==
    LET prefix == build_counter_prefix(counter_type)
        start_key == IF IsSome(after)
                     THEN next_key(build_counter_key(counter_type, Unwrap(after)))
                     ELSE prefix
        range == GetRange(d.counters, start_key, end_key(prefix), limit)
        prefix_len == Len(prefix)
        parsed == SelectSeq(range, LAMBDA key : Len(key) > prefix_len + 4)
    IN  [i \in 1..Len(parsed) |->
            LET key == parsed[i]
                id_len == FromBEUnsigned(SubSeq(key, prefix_len + 1, prefix_len + 4))
            IN  SubSeq(key, prefix_len + 5, prefix_len + 4 + id_len)]

sample_team_counters(d, limit, after_team_id) ==
    SampleCounters(d, COUNTER_TEAM, limit, after_team_id)

sample_crawl_counters(d, limit, after_crawl_id) ==
    SampleCounters(d, COUNTER_CRAWL, limit, after_crawl_id)

RECONCILE_SCAN_LIMIT == 100000
ACTIVE_SCAN_LIMIT == 10000

\* actual_count as each reconcile_*_counter computes it
ActualTeamQueue(d, team_id) ==
    LET start_key == build_queue_prefix(team_id)
    IN  Len(GetRange(d.queue, start_key, end_key(start_key), RECONCILE_SCAN_LIMIT))

ActualCrawlQueue(d, crawl_id) ==
    LET start_key == build_crawl_index_prefix(crawl_id)
    IN  Len(GetRange(d.crawlIndex, start_key, end_key(start_key), RECONCILE_SCAN_LIMIT))

ActualTeamActive(d, team_id, now) ==
    LET start_key == build_active_prefix(team_id)
        range == GetRange(d.active, start_key, end_key(start_key), ACTIVE_SCAN_LIMIT)
    IN  Len(SelectSeq(range, LAMBDA key : d.active[key] > now))

ActualCrawlActive(d, crawl_id, now) ==
    LET start_key == build_active_crawl_prefix(crawl_id)
        range == GetRange(d.activeCrawl, start_key, end_key(start_key), ACTIVE_SCAN_LIMIT)
    IN  Len(SelectSeq(range, LAMBDA key : d.activeCrawl[key] > now))

\* the four routines by the counter type they reconcile
ActualCount(d, counter_type, id, now) ==
    IF counter_type = COUNTER_TEAM THEN ActualTeamQueue(d, id)
    ELSE IF counter_type = COUNTER_CRAWL THEN ActualCrawlQueue(d, id)
    ELSE IF counter_type = COUNTER_ACTIVE_TEAM THEN ActualTeamActive(d, id, now)
    ELSE ActualCrawlActive(d, id, now)

\* a second transaction that adds the observed count to the counter
ReconcileSetTx_Add(d, counter_type, id, actual_count) ==
    [d EXCEPT !.counters = AtomicAdd(@, build_counter_key(counter_type, id), actual_count)]

\* the second transaction of a reconcile_*_counter
ReconcileSetTx(d, counter_type, id, actual_count) ==
    [d EXCEPT !.counters = Set(@, build_counter_key(counter_type, id), actual_count)]

\* a reconcile_*_counter run with nothing in between its read and its set
ReconcileTx(d, counter_type, id, now) ==
    LET actual_count == ActualCount(d, counter_type, id, now)
        current_count == CounterValue(d.counters, build_counter_key(counter_type, id))
    IN  IF actual_count = current_count THEN d
        ELSE ReconcileSetTx(d, counter_type, id, actual_count)

PushActiveJob(p) ==
    /\ Ready(p)
    /\ calls' = calls + 1
    /\ \E team_id \in ActiveTeamIds, job_id \in ActiveJobIds, timeout \in ActiveTimeouts :
          db' = PushActiveTx(db, clock, team_id, job_id, timeout)
    /\ proc' = [proc EXCEPT ![p] = Return(Call(p, "push_active_job"), "Ok")]
    /\ UNCHANGED <<clock, version, hist>>

PushCrawlActiveJob(p) ==
    /\ Ready(p)
    /\ calls' = calls + 1
    /\ \E crawl_id \in CrawlIds, job_id \in ActiveJobIds, timeout \in ActiveTimeouts :
          db' = PushCrawlActiveTx(db, clock, crawl_id, job_id, timeout)
    /\ proc' = [proc EXCEPT ![p] = Return(Call(p, "push_crawl_active_job"), "Ok")]
    /\ UNCHANGED <<clock, version, hist>>

RemoveActiveJob(p) ==
    /\ Ready(p)
    /\ calls' = calls + 1
    /\ \E team_id \in ActiveTeamIds, job_id \in ActiveJobIds :
          db' = RemoveActiveTx(db, team_id, job_id)
    /\ proc' = [proc EXCEPT ![p] = Return(Call(p, "remove_active_job"), "Ok")]
    /\ UNCHANGED <<clock, version, hist>>

RemoveCrawlActiveJob(p) ==
    /\ Ready(p)
    /\ calls' = calls + 1
    /\ \E crawl_id \in CrawlIds, job_id \in ActiveJobIds :
          db' = RemoveCrawlActiveTx(db, crawl_id, job_id)
    /\ proc' = [proc EXCEPT ![p] = Return(Call(p, "remove_crawl_active_job"), "Ok")]
    /\ UNCHANGED <<clock, version, hist>>

\* the counters a reconcile_*_counter may be called for
ReconcileTargets ==
    ({COUNTER_TEAM, COUNTER_ACTIVE_TEAM} \X ActiveTeamIds)
        \cup ({COUNTER_CRAWL, COUNTER_ACTIVE_CRAWL} \X CrawlIds)

\* a reconcile_*_counter up to its comparison of the two counts
ReconcileRead(p) ==
    /\ Ready(p)
    /\ calls' = calls + 1
    /\ \E target \in ReconcileTargets :
          LET actual_count == ActualCount(db, target[1], target[2], clock)
              current_count == CounterValue(db.counters, build_counter_key(target[1], target[2]))
              l == [Call(p, "reconcile_counter") EXCEPT !.key = target[1], !.arg = target[2],
                                                        !.now = clock]
          IN  proc' = [proc EXCEPT ![p] =
                  IF actual_count = current_count
                  THEN [Return(l, "0") EXCEPT !.key = l.key]
                  ELSE [l EXCEPT !.pc = "reconcile_commit", !.iter = actual_count,
                                 !.correction = actual_count - current_count]]
    /\ UNCHANGED <<db, clock, version, hist>>

\* its second transaction: the set of the counter
ReconcileCommit(p) ==
    /\ proc[p].pc = "reconcile_commit"
    /\ db' = ReconcileSetTx(db, proc[p].key, proc[p].arg, proc[p].iter)
    /\ proc' = [proc EXCEPT ![p] =
                    [Return(proc[p], "corrected") EXCEPT !.key = proc[p].key,
                                                         !.correction = proc[p].correction]]
    /\ UNCHANGED <<clock, version, hist, calls>>

\* The janitor's pass over the counters: it pages through sample_team_counters
\* and sample_crawl_counters and reconciles both counters of every id they gave.
InPass == \E p \in AllProcs : proc[p].op = "reconcile_pass"

PassTargets(counter_types, ids) ==
    [i \in 1..(2 * Len(ids)) |-> <<counter_types[2 - (i % 2)], ids[(i + 1) \div 2]>>]

PassSampleTeams(p) ==
    /\ \/ Alone(p) /\ proc[p].pc \in {"idle", "done"} /\ ~InPass
       \/ proc[p].pc = "pass_teams"
    /\ LET l == IF proc[p].pc = "pass_teams" THEN proc[p]
                ELSE [Call(p, "reconcile_pass") EXCEPT !.pc = "pass_teams", !.arg = None]
           team_ids == sample_team_counters(db, SampleLimit, l.arg)
       IN  proc' = [proc EXCEPT ![p] =
               IF team_ids = <<>> THEN [l EXCEPT !.pc = "pass_crawls", !.arg = None]
               ELSE [l EXCEPT !.arg = Some(team_ids[Len(team_ids)]),
                              !.toCheck = @ \o PassTargets(<<COUNTER_TEAM, COUNTER_ACTIVE_TEAM>>,
                                                           team_ids)]]
    /\ UNCHANGED <<db, clock, version, hist, calls>>

PassSampleCrawls(p) ==
    /\ proc[p].pc = "pass_crawls"
    /\ LET crawl_ids == sample_crawl_counters(db, SampleLimit, proc[p].arg)
       IN  proc' = [proc EXCEPT ![p] =
               IF crawl_ids = <<>> THEN [proc[p] EXCEPT !.pc = "pass_reconcile"]
               ELSE [proc[p] EXCEPT !.arg = Some(crawl_ids[Len(crawl_ids)]),
                                    !.toCheck = @ \o PassTargets(<<COUNTER_CRAWL,
                                                                   COUNTER_ACTIVE_CRAWL>>,
                                                                 crawl_ids)]]
    /\ UNCHANGED <<db, clock, version, hist, calls>>

PassReconcile(p) ==
    /\ proc[p].pc = "pass_reconcile"
    /\ IF proc[p].toCheck = <<>>
       THEN /\ proc' = [proc EXCEPT ![p] = Return(proc[p], "Ok")]
            /\ db' = db
       ELSE LET target == Head(proc[p].toCheck)
            IN  /\ db' = ReconcileTx(db, target[1], target[2], clock)
                /\ proc' = [proc EXCEPT ![p].toCheck = Tail(@)]
    /\ UNCHANGED <<clock, version, hist, calls>>

Working == ~InPass /\ calls < MaxWork

\* a workload of pushes, active-job tracking and reconciles, then the pass
NextCounters ==
    \/ ~InPass /\ Tick
    \/ \E p \in Procs : Working /\ PushJob(p)
    \/ \E p \in Procs : Working /\ PushActiveJob(p)
    \/ \E p \in Procs : Working /\ PushCrawlActiveJob(p)
    \/ \E p \in Procs : Working /\ RemoveActiveJob(p)
    \/ \E p \in Procs : Working /\ RemoveCrawlActiveJob(p)
    \/ \E p \in Procs : Working /\ ReconcileRead(p)
    \/ \E p \in Procs : ~InPass /\ ReconcileCommit(p)
    \/ \E p \in AllProcs \ Procs : PassSampleTeams(p)
    \/ \E p \in AllProcs \ Procs : PassSampleCrawls(p)
    \/ \E p \in AllProcs \ Procs : PassReconcile(p)

SpecCounters == Init /\ [][NextCounters]_vars

-----------------------------------------------------------------------------
(* The janitor's sweeps over stores that hold full batches *)

\* the id of the i-th of many jobs: two bytes, below "a"
BulkJobId(i) == <<48 + (i \div 100), 1 + (i % 100)>>

\* the store after push_job for the jobs lo..hi, all of one team, pushed at
\* time 0 with priority 1, the given timeout and no crawl
RECURSIVE BulkPushes(_, _, _, _, _)
BulkPushes(d, team_id, timeout, lo, hi) ==
    IF lo > hi \/ ~Evaluated(d) THEN d
    ELSE IF lo = hi THEN PushTx(d, 0, team_id, BulkJobId(lo), 1, timeout, None)
    ELSE LET mid == (lo + hi) \div 2
         IN  BulkPushes(BulkPushes(d, team_id, timeout, lo, mid), team_id, timeout, mid + 1, hi)

\* how many jobs come ahead of the one watched: a few, a batch, all the
\* batches of one call, and one less or more
BulkCounts ==
    {0, 1, 2, BATCH_LIMIT - 1, BATCH_LIMIT, BATCH_LIMIT + 1,
     MAX_BATCHES * BATCH_LIMIT - 1, MAX_BATCHES * BATCH_LIMIT}

\* the store after the first n of the many pushes
BulkStore(timeout, n) == BulkPushes(EmptyDb, <<116>>, timeout, 0, n - 1)

\* n jobs with timeout 1, then one more with timeout 1, job "aa" or the job
\* with the empty id, and perhaps job "b" without a timeout; the clock is past
\* the expiry of all of them
InitSweep ==
    /\ \E n \in BulkCounts, last \in {<<97, 97>>, <<>>}, plain \in BOOLEAN :
          LET d1 == BulkStore(Some(1), n)
              d2 == PushTx(d1, 0, <<116>>, last, 1, Some(1), None)
          IN  /\ n >= BATCH_LIMIT => ~plain /\ last # <<>>
              /\ db = IF plain THEN PushTx(d2, 0, <<116>>, <<98>>, 1, None, None) ELSE d2
              /\ pushed = {BulkJobId(i) : i \in 0..(n - 1)} \cup {last}
                              \cup (IF plain THEN {<<98>>} ELSE {})
    /\ clock = 2
    /\ version = 0
    /\ proc = [p \in AllProcs |-> IdleProc]
    /\ popLog = <<>>
    /\ released = {}
    /\ issued = {}
    /\ doneTrue = EmptyMap
    /\ calls = 0

\* the janitor calls clean_expired_jobs again and again
NextSweep ==
    \/ \E p \in AllProcs \ Procs : CleanExpiredStart(p)
    \/ \E p \in AllProcs \ Procs : CleanExpiredBatch(p)

SpecSweep == InitSweep /\ [][NextSweep]_vars

-----
(* Claims checked under Spec *)

\* the number of pop_next_job calls that have returned job_id
Wins(job_id) == Cardinality({i \in DOMAIN popLog : popLog[i].id = job_id})

\* the step is one of handler op run by process p
StepOf(p, op) == proc'[p] # proc[p] /\ proc'[p].op = op

HasPrefix(k, prefix) == Len(k) >= Len(prefix) /\ SubSeq(k, 1, Len(prefix)) = prefix

ClaimKeysOf(d, job_id) == {k \in DOMAIN d.claims : HasPrefix(k, build_claims_prefix(job_id))}

\* C1: for every jobId at most one pop_next_job call ever returns the job.
\* Stated for the jobs release_job was never called for, which the claim
\* covers whatever a release is meant to allow.
C1_SingleWinner == \A j \in JobIds : j \notin released => Wins(j) <= 1

\* C6: every step of a complete_job call either leaves the store as it is or
\* is the one commit after which the queue record, the TTL entry, the
\* crawl-index entry and every claim of the job are gone and both counters
\* are one lower.
C6_CompleteAtomic ==
    [][\A p \in Procs : StepOf(p, "complete_job") =>
          IF proc[p].pc = "complete_commit"
          THEN LET job == proc[p].job
               IN  /\ proc[p].key \notin DOMAIN db'.queue
                   /\ IsSome(job.timesOutAt) =>
                          build_ttl_index_key(Unwrap(job.timesOutAt), job.teamId, job.id)
                              \notin DOMAIN db'.ttlIndex
                   /\ IsSome(job.crawlId) =>
                          /\ build_crawl_index_key(Unwrap(job.crawlId), job.id)
                                 \notin DOMAIN db'.crawlIndex
                          /\ LET c == build_counter_key(COUNTER_CRAWL, Unwrap(job.crawlId))
                             IN  CounterValue(db'.counters, c) = CounterValue(db.counters, c) - 1
                   /\ ClaimKeysOf(db', job.id) = {}
                   /\ LET t == build_counter_key(COUNTER_TEAM, job.teamId)
                      IN  CounterValue(db'.counters, t) = CounterValue(db.counters, t) - 1
          ELSE db' = db]_vars

\* C6 witness: a complete_job has committed for a crawl job that had a claim
C6_Witness ==
    \E p \in Procs :
        /\ proc[p].op = "complete_job" /\ proc[p].ret = "true"
        /\ IsSome(proc[p].retJob.crawlId)
        /\ popLog # <<>>
        /\ db.queue = EmptyMap /\ db.claims = EmptyMap /\ db.crawlIndex = EmptyMap

\* C7: for every handle at most one complete_job call returns true (and so the
\* counters are decremented once for the job).
C7_CompleteOnce == \A h \in DOMAIN doneTrue : doneTrue[h] <= 1

\* C8: a complete_job whose handle names no stored queue record returns false
\* at its read and changes nothing in the store.
C8_CompleteMissing ==
    [][\A p \in Procs :
          (/\ StepOf(p, "complete_job")
           /\ proc[p].pc # "complete_commit"
           /\ IsSome(B64Decode(proc'[p].arg))
           /\ Unwrap(B64Decode(proc'[p].arg)) \notin DOMAIN db.queue)
          => (proc'[p].pc = "done" /\ proc'[p].ret = "false" /\ db' = db)]_vars

\* C8 witness: a complete_job has returned false while claims of others remain
C8_Witness ==
    \E p \in Procs :
        /\ proc[p].op = "complete_job" /\ proc[p].ret = "false"
        /\ doneTrue # EmptyMap

\* C9: release_job removes every claim of the job and nothing else: the other
\* jobs' claims, the queue, the indexes and the counters are as before.
C9_ReleaseFrame ==
    [][\A p \in Procs : StepOf(p, "release_job") =>
          LET job_id == proc'[p].arg
          IN  /\ ClaimKeysOf(db', job_id) = {}
              /\ DOMAIN db'.claims = DOMAIN db.claims \ ClaimKeysOf(db, job_id)
              /\ \A k \in DOMAIN db'.claims : db'.claims[k] = db.claims[k]
              /\ db'.queue = db.queue
              /\ db'.ttlIndex = db.ttlIndex
              /\ db'.crawlIndex = db.crawlIndex
              /\ db'.counters = db.counters
              /\ db'.active = db.active
              /\ db'.activeCrawl = db.activeCrawl]_vars

\* C9 witness: a release_job has returned after removing the claims of two
\* workers, and the job is still queued and counted
C9_Witness ==
    \E p \in Procs :
        /\ proc[p].op = "release_job" /\ proc[p].ret = "Ok"
        /\ version >= 2
        /\ ClaimKeysOf(db, proc[p].arg) = {}
        /\ \E k \in DOMAIN db.queue : db.queue[k].id = proc[p].arg
        /\ \E t \in TeamIds : CounterValue(db.counters, build_counter_key(COUNTER_TEAM, t)) = 1

-----------------------------------------------------------------------------
(* Claims checked under SpecOrder: pops run one after the other on a loaded queue *)

QueuedJobs == {db.queue[k] : k \in DOMAIN db.queue}

DistinctPriorities == \A x, y \in QueuedJobs : x # y => x.priority # y.priority

\* p is ahead of q when the priorities are compared as the four big-endian
\* bytes of their two's-complement form: the lower number first, and every
\* negative number after every non-negative one
PriorityBefore(p, q) == (p >= 0 /\ q < 0) \/ ((p >= 0) = (q >= 0) /\ p < q)

C4_TieBreak ==
    \A i, j \in DOMAIN popLog :
        (i < j /\ popLog[i].teamId = popLog[j].teamId
               /\ popLog[i].priority = popLog[j].priority) =>
            /\ popLog[i].createdAt <= popLog[j].createdAt
            /\ popLog[i].createdAt = popLog[j].createdAt =>
                  \/ Len(popLog[i].id) < Len(popLog[j].id)
                  \/ /\ Len(popLog[i].id) = Len(popLog[j].id)
                     /\ KeyLess(popLog[i].id, popLog[j].id)

\* C4 witness: with equal priority and createdAt, "a", "b" and "aa" have been
\* returned in that order
C4_Witness ==
    /\ Len(popLog) = 3
    /\ popLog[1].id = <<97>> /\ popLog[2].id = <<98>> /\ popLog[3].id = <<97, 97>>
    /\ \A i \in 2..3 : /\ popLog[i].priority = popLog[1].priority
                       /\ popLog[i].createdAt = popLog[1].createdAt

\* C4 (as the spec has it): equal priority orders by ascending createdAt, and
\* equal createdAt by the plain byte-wise order of the jobIds, whatever their
\* lengths.
C4_TieBreakBytewise ==
    \A i, j \in DOMAIN popLog :
        (i < j /\ popLog[i].teamId = popLog[j].teamId
               /\ popLog[i].priority = popLog[j].priority) =>
            /\ popLog[i].createdAt <= popLog[j].createdAt
            /\ popLog[i].createdAt = popLog[j].createdAt =>
                  KeyLess(popLog[i].id, popLog[j].id)

-----------------------------------------------------------------------------
(* Claims checked under SpecPops and SpecSolo: every worker pops once *)

\* a pop that read the clock at now and was given blocked may return the job
Poppable(job, now, blocked) ==
    /\ job.timesOutAt = None \/ Unwrap(job.timesOutAt) >= now
    /\ job.crawlId = None \/ Unwrap(job.crawlId) \notin blocked

AllPopped == \A p \in AllProcs : proc[p].op = "pop_next_job" /\ proc[p].pc = "done"

\* job is the one job every pop may return, the other queued jobs being
\* expired or blocked for every pop
OnlyPoppable(job) ==
    /\ \A p \in AllProcs : Poppable(job, proc[p].now, proc[p].blocked)
    /\ \A other \in QueuedJobs \ {job} :
           \A p \in AllProcs : ~Poppable(other, proc[p].now, proc[p].blocked)

\* C2: when the concurrent pops of pairwise distinct workers have all returned
\* and one queued job was the only unexpired, unblocked one, exactly one pop
\* has returned that job and every other pop has returned none.
C2_ExactlyOne ==
    AllPopped =>
        \A job \in QueuedJobs :
            OnlyPoppable(job) =>
                \E p \in AllProcs :
                    /\ proc[p].ret = "Some" /\ proc[p].retJob = job
                    /\ \A q \in AllProcs \ {p} : proc[q].ret = "None"

\* C2 witness: all three pops have returned, one with the only poppable job and
\* two with none, after all three wrote a claim for the job, and a second job
\* sits in the queue
C2_Witness ==
    /\ AllPopped
    /\ \E job \in QueuedJobs :
           /\ OnlyPoppable(job)
           /\ QueuedJobs # {job}
           /\ Cardinality(ClaimKeysOf(db, job.id)) = 3
           /\ \E p \in AllProcs :
                  /\ proc[p].ret = "Some" /\ proc[p].retJob = job
                  /\ \A q \in AllProcs \ {p} : proc[q].ret = "None"

\* the queued jobs a pop may return, in scan order: unexpired, not of a blocked
\* crawl, and without a claim of another worker
Attemptable(d, team_id, worker_id, now, blocked) ==
    SelectSeq(PopRange(d, team_id),
              LAMBDA kv : /\ Poppable(kv.job, now, blocked)
                          /\ \A k \in ClaimKeysOf(d, kv.job.id) :
                                 d.claims[k].workerId = worker_id)

\* C5: a pop never writes a claim for, and never returns, a job of a crawl in
\* its blockedCrawlIds; run alone, the job it claims and returns is the first
\* unexpired, unblocked, unclaimed job in scan order, and it returns none only
\* when there is no such job.
C5_BlockedCrawl ==
    [][\A p \in AllProcs : StepOf(p, "pop_next_job") =>
          LET l == proc'[p]
              first == Attemptable(db, l.team, WorkerIdOf(p), l.now, l.blocked)
              written == DOMAIN db'.claims \ DOMAIN db.claims
          IN  /\ written # {} =>
                    /\ first # <<>>
                    /\ written \subseteq ClaimKeysOf(db', first[1].job.id)
                    /\ first[1].job.crawlId = None
                           \/ Unwrap(first[1].job.crawlId) \notin l.blocked
              /\ (l.pc = "done" /\ l.ret = "Some") =>
                    /\ first # <<>>
                    /\ l.retJob = first[1].job
                    /\ l.retJob.crawlId = None \/ Unwrap(l.retJob.crawlId) \notin l.blocked
              /\ (l.pc = "done" /\ l.ret = "None") => first = <<>>]_vars

\* C5 witness: a pop that blocked the crawl of "a" has returned "b", and "a"
\* is queued, unexpired and unclaimed
C5_Witness ==
    \E p \in AllProcs, c \in CrawlIds :
        /\ proc[p].pc = "done" /\ proc[p].ret = "Some"
        /\ c \in proc[p].blocked
        /\ proc[p].retJob.id = <<98>>
        /\ \E job \in QueuedJobs :
               /\ job.id = <<97>> /\ job.crawlId = Some(c)
               /\ ClaimKeysOf(db, job.id) = {}

-----------------------------------------------------------------------------
(* Claims checked under SpecCounters: a workload, then the janitor's pass *)

\* the cardinality of the set a counter stands for: the queue records of the
\* team, the crawl's index entries, the unexpired active records
Authoritative(counter_type, id) ==
    IF counter_type = COUNTER_TEAM
    THEN Cardinality({k \in DOMAIN db.queue : db.queue[k].teamId = id})
    ELSE IF counter_type = COUNTER_CRAWL
    THEN Cardinality({k \in DOMAIN db.crawlIndex : HasPrefix(k, build_crawl_index_prefix(id))})
    ELSE IF counter_type = COUNTER_ACTIVE_TEAM
    THEN Cardinality({k \in DOMAIN db.active :
                          HasPrefix(k, build_active_prefix(id)) /\ db.active[k] > clock})
    ELSE Cardinality({k \in DOMAIN db.activeCrawl :
                          HasPrefix(k, build_active_crawl_prefix(id)) /\ db.activeCrawl[k] > clock})

PassDone == \E p \in AllProcs : proc[p].op = "reconcile_pass" /\ proc[p].pc = "done"

\* C10: once the workload has finished and the janitor has sampled the team
\* and crawl ids and reconciled the four counters of every sampled id, every
\* counter of every type equals the cardinality of its authoritative set.
C10_Converged ==
    PassDone =>
        \A target \in ReconcileTargets :
            CounterValue(db.counters, build_counter_key(target[1], target[2]))
                = Authoritative(target[1], target[2])

-----------------------------------------------------------------------------
(* Claims checked under Spec: the counters, the indexes and the janitor *)

\* no caller is inside a handler
Quiescent == \A p \in AllProcs : proc[p].pc \in {"idle", "done"}

\* C11: whenever no operation is in flight, the team-queued counter of each team
\* equals the number of the team's queue records, the crawl-queued counter of
\* each crawl equals the number of its crawl-index entries, and no jobId has
\* more than one queue record.
C11_CountersReflectQueue ==
    Quiescent =>
        /\ \A t \in TeamIds :
               CounterValue(db.counters, build_counter_key(COUNTER_TEAM, t))
                   = Authoritative(COUNTER_TEAM, t)
        /\ \A c \in CrawlIds :
               CounterValue(db.counters, build_counter_key(COUNTER_CRAWL, c))
                   = Authoritative(COUNTER_CRAWL, c)
        /\ \A j \in JobIds : Cardinality({k \in DOMAIN db.queue : db.queue[k].id = j}) <= 1

-----------------------------------------------------------------------------
(* A claims subspace of many claims: the janitor's clean_orphaned_claims     *)
(* runs alone on a store in which jobs handed out by pop_next_job and not    *)
(* yet completed hold their claims, and one claimed job has expired and was  *)
(* swept, which leaves its claim orphaned                                    *)

\* push_job of job i and the claim that the pop which won it has committed
RECURSIVE BulkClaims(_, _, _, _)
BulkClaims(d, team_id, lo, hi) ==
    IF lo > hi \/ ~Evaluated(d) THEN d
    ELSE IF lo = hi
         THEN ClaimTx(PushTx(d, 0, team_id, BulkJobId(lo), 1, None, None), lo, BulkJobId(lo),
                      WorkerIdOf(1), build_queue_key(team_id, 1, 0, BulkJobId(lo)), 0)
    ELSE LET mid == (lo + hi) \div 2
         IN  BulkClaims(BulkClaims(d, team_id, lo, mid), team_id, mid + 1, hi)

\* how many claims of jobs in progress there are: none, a few, a batch, and
\* one less or more
ClaimCounts == {0, 1, BATCH_LIMIT - 1, BATCH_LIMIT, BATCH_LIMIT + 1}

\* the job whose claim is orphaned: "a" sorts before the jobs in progress in
\* the claims subspace, "aa" after them
OrphanJobIds == {<<97>>, <<97, 97>>}

\* n jobs in progress; one more job pushed with timeout 1 and claimed at time
\* 0, then swept by clean_expired_jobs at time 2
InitOrphans ==
    /\ \E n \in ClaimCounts, job_id \in OrphanJobIds :
          LET d1 == BulkClaims(EmptyDb, <<116>>, 0, n - 1)
              d2 == PushTx(d1, 0, <<116>>, job_id, 1, Some(1), None)
              d3 == ClaimTx(d2, n, job_id, WorkerIdOf(2),
                            build_queue_key(<<116>>, 1, 0, job_id), 0)
          IN  /\ db = SweepTx(d3, ExpiredBatch(d3, 2))
              /\ pushed = {BulkJobId(i) : i \in 0..(n - 1)} \cup {job_id}
              /\ version = n + 1
    /\ clock = 2
    /\ proc = [p \in AllProcs |-> IdleProc]
    /\ popLog = <<>>
    /\ released = {}
    /\ issued = {}
    /\ doneTrue = EmptyMap
    /\ calls = 0

\* the janitor calls clean_orphaned_claims again and again
NextOrphans ==
    \/ \E p \in AllProcs \ Procs : OrphanScan(p)
    \/ \E p \in AllProcs \ Procs : OrphanCheck(p)
    \/ \E p \in AllProcs \ Procs : OrphanCommit(p)

SpecOrphans == InitOrphans /\ [][NextOrphans]_vars

-----------------------------------------------------------------------------
(* Abandoned claims: workers pop, and a worker may stop for good once its    *)
(* claim is committed; the janitor runs clean_expired_jobs and               *)
(* clean_orphaned_claims in turn, for ever                                   *)

AbandonPushes ==
    [team : TeamIds, priority : {1}, at : {0}, timeout : {None, Some(1)}, crawl : {None}]

AbandonJobIds == {<<97>>}

InitAbandon == InitLoaded(AbandonJobIds, AbandonPushes, 0)

\* the worker crashes or is cancelled after the commit of its claim (line 449)
\* and before the read that decides the winner
Abandon(p) ==
    /\ proc[p].pc = "pop_verify"
    /\ proc' = [proc EXCEPT ![p].pc = "stopped"]
    /\ UNCHANGED <<db, clock, version, hist, calls>>

Janitor == CHOOSE p \in AllProcs : p \notin Procs

\* a janitor run is not counted in the workers' budget of calls
JanitorSweepStart ==
    /\ proc[Janitor].pc \in {"idle", "done"}
    /\ proc[Janitor].op # "clean_expired_jobs"
    /\ calls' = calls
    /\ CleanExpiredEnter(Janitor)

JanitorOrphanScan ==
    /\ \/ proc[Janitor].pc = "done" /\ proc[Janitor].op = "clean_expired_jobs"
       \/ proc[Janitor].pc = "orphan_scan"
    /\ calls' = calls
    /\ OrphanRead(Janitor)

JanitorNext ==
    \/ JanitorSweepStart
    \/ CleanExpiredBatch(Janitor)
    \/ JanitorOrphanScan
    \/ OrphanCheck(Janitor)
    \/ OrphanCommit(Janitor)

\* every worker pops once
NextAbandon ==
    \/ Tick
    \/ \E p \in Procs : proc[p].pc = "idle" /\ PopScan(p)
    \/ \E p \in Procs : PopCleanup(p)
    \/ \E p \in Procs : PopProbe(p)
    \/ \E p \in Procs : PopClaim(p)
    \/ \E p \in Procs : PopVerify(p)
    \/ \E p \in Procs : Abandon(p)
    \/ JanitorNext

\* the janitor is periodic: it always takes its next step
SpecAbandon == InitAbandon /\ [][NextAbandon]_vars /\ WF_vars(JanitorNext)

-----------------------------------------------------------------------------
(* Pushes whose timeout and crawl are fixed by the job id and the time of    *)
(* the push, so that a record tells what its push was given                  *)

\* the timeout and the crawl given to the push of job_id at time now
PushPlan(job_id, now) ==
    IF job_id = <<97>>
    THEN [timeout |-> IF now = 0 THEN Some(1) ELSE IF now = 1 THEN Some(0) ELSE Some(-1),
          crawl |-> None]
    ELSE [timeout |-> IF now = 1 THEN None ELSE Some(1),
          crawl |-> IF now = 0 THEN Some(<<99>>) ELSE None]

PushPlanned(p) ==
    /\ Ready(p)
    /\ calls' = calls + 1
    /\ \E team_id \in TeamIds, job_id \in FreshJobIds, priority \in Priorities :
          /\ db' = PushTx(db, clock, team_id, job_id, priority,
                          PushPlan(job_id, clock).timeout, PushPlan(job_id, clock).crawl)
          /\ proc' = [proc EXCEPT ![p] =
                        Return([Call(p, "push_job") EXCEPT !.arg = job_id], "Ok")]
          /\ pushed' = pushed \cup {job_id}
    /\ UNCHANGED <<clock, version, popLog, released, issued, doneTrue>>

NextPlanned ==
    \/ Tick
    \/ \E p \in Procs : PushPlanned(p)
    \/ \E p \in Procs : PopScan(p)
    \/ \E p \in Procs : PopCleanup(p)
    \/ \E p \in Procs : PopProbe(p)
    \/ \E p \in Procs : PopClaim(p)
    \/ \E p \in Procs : PopVerify(p)
    \/ \E p \in Procs : ReleaseJob(p)
    \/ \E p \in Procs : CompleteRead(p)
    \/ \E p \in Procs : CompleteCommit(p)
    \/ \E p \in Procs : CleanExpiredStart(p)
    \/ \E p \in Procs : CleanExpiredBatch(p)
    \/ \E p \in Procs : OrphanScan(p)
    \/ \E p \in Procs : OrphanCheck(p)
    \/ \E p \in Procs : OrphanCommit(p)

SpecPlanned == Init /\ [][NextPlanned]_vars

-----------------------------------------------------------------------------
(* The active sets under concurrency: remove_active_job reads the record and *)
(* commits later; the store refuses the commit of a transaction that wrote   *)
(* when a key it had read was written by a commit in between                 *)

\* the read of remove_active_job (line 732) saw the record: kept in iter
SawRecord(l) == l.iter = 1

\* a commit in between has written the key that the transaction read
Conflicted_Never(l) == FALSE

Conflicted(l) == l.ret = "conflict"

\* the commit of a write to key: every other transaction that has read key and
\* is not yet committed is marked
AfterWrite(pr, writer, op, key) ==
    [q \in AllProcs |->
        IF q # writer /\ pr[q].pc = "remove_commit" /\ pr[q].op = op /\ pr[q].key = key
        THEN [pr[q] EXCEPT !.ret = "conflict"]
        ELSE pr[q]]

\* push_active_job: one transaction of blind writes (lines 715-725)
PushActiveWrite(p) ==
    /\ Ready(p)
    /\ calls' = calls + 1
    /\ \E team_id \in ActiveTeamIds, job_id \in ActiveJobIds, timeout \in ActiveTimeouts :
          /\ db' = PushActiveTx(db, clock, team_id, job_id, timeout)
          /\ proc' = AfterWrite([proc EXCEPT ![p] = Return(Call(p, "push_active_job"), "Ok")],
                                p, "remove_active_job", build_active_key(team_id, job_id))
    /\ UNCHANGED <<clock, version, hist>>

PushCrawlActiveWrite(p) ==
    /\ Ready(p)
    /\ calls' = calls + 1
    /\ \E crawl_id \in CrawlIds, job_id \in ActiveJobIds, timeout \in ActiveTimeouts :
          /\ db' = PushCrawlActiveTx(db, clock, crawl_id, job_id, timeout)
          /\ proc' = AfterWrite([proc EXCEPT ![p] =
                                    Return(Call(p, "push_crawl_active_job"), "Ok")],
                                p, "remove_crawl_active_job",
                                build_active_crawl_key(crawl_id, job_id))
    /\ UNCHANGED <<clock, version, hist>>

\* remove_active_job up to the read of the record (lines 728-732)
RemoveActiveRead(p) ==
    /\ Ready(p)
    /\ calls' = calls + 1
    /\ \E team_id \in ActiveTeamIds, job_id \in ActiveJobIds :
          LET key == build_active_key(team_id, job_id)
          IN  proc' = [proc EXCEPT ![p] =
                  [Call(p, "remove_active_job") EXCEPT
                      !.pc = "remove_commit", !.team = team_id, !.arg = job_id, !.key = key,
                      !.iter = IF key \in DOMAIN db.active THEN 1 ELSE 0]]
    /\ UNCHANGED <<db, clock, version, hist>>

\* its commit (line 736): the clear and the decrement, if the read saw the
\* record; nothing to write, and nothing to refuse, if it did not
RemoveActiveCommit(p) ==
    /\ proc[p].pc = "remove_commit"
    /\ proc[p].op = "remove_active_job"
    /\ LET l == proc[p]
       IN  IF ~SawRecord(l)
           THEN db' = db /\ proc' = [proc EXCEPT ![p] = Return(l, "Ok")]
           ELSE IF Conflicted(l)
           THEN db' = db /\ proc' = [proc EXCEPT ![p] = Return(l, "Err")]
           ELSE /\ db' = [db EXCEPT
                             !.active = Clear(@, l.key),
                             !.counters =
                                 AtomicAdd(@, build_counter_key(COUNTER_ACTIVE_TEAM, l.team), -1)]
                /\ proc' = AfterWrite([proc EXCEPT ![p] = Return(l, "Ok")],
                                      p, "remove_active_job", l.key)
    /\ UNCHANGED <<clock, version, hist, calls>>

\* remove_crawl_active_job, likewise (lines 792-803)
RemoveCrawlActiveRead(p) ==
    /\ Ready(p)
    /\ calls' = calls + 1
    /\ \E crawl_id \in CrawlIds, job_id \in ActiveJobIds :
          LET key == build_active_crawl_key(crawl_id, job_id)
          IN  proc' = [proc EXCEPT ![p] =
                  [Call(p, "remove_crawl_active_job") EXCEPT
                      !.pc = "remove_commit", !.team = crawl_id, !.arg = job_id, !.key = key,
                      !.iter = IF key \in DOMAIN db.activeCrawl THEN 1 ELSE 0]]
    /\ UNCHANGED <<db, clock, version, hist>>

RemoveCrawlActiveCommit(p) ==
    /\ proc[p].pc = "remove_commit"
    /\ proc[p].op = "remove_crawl_active_job"
    /\ LET l == proc[p]
       IN  IF ~SawRecord(l)
           THEN db' = db /\ proc' = [proc EXCEPT ![p] = Return(l, "Ok")]
           ELSE IF Conflicted(l)
           THEN db' = db /\ proc' = [proc EXCEPT ![p] = Return(l, "Err")]
           ELSE /\ db' = [db EXCEPT
                             !.activeCrawl = Clear(@, l.key),
                             !.counters =
                                 AtomicAdd(@, build_counter_key(COUNTER_ACTIVE_CRAWL, l.team), -1)]
                /\ proc' = AfterWrite([proc EXCEPT ![p] = Return(l, "Ok")],
                                      p, "remove_crawl_active_job", l.key)
    /\ UNCHANGED <<clock, version, hist, calls>>

NextActive ==
    \/ Tick
    \/ \E p \in Procs : PushActiveWrite(p)
    \/ \E p \in Procs : PushCrawlActiveWrite(p)
    \/ \E p \in Procs : RemoveActiveRead(p)
    \/ \E p \in Procs : RemoveActiveCommit(p)
    \/ \E p \in Procs : RemoveCrawlActiveRead(p)
    \/ \E p \in Procs : RemoveCrawlActiveCommit(p)

SpecActive == Init /\ [][NextActive]_vars

-----------------------------------------------------------------------------
(* clean_expired_active_jobs (lines 902-982): two loops, one over the team   *)
(* active subspace and one over the crawl active subspace; every pass reads  *)
(* the first records of the subspace and commits the clears of the expired   *)

ActiveBatch(d) == GetRange(d.active, ACTIVE_PREFIX, end_key(ACTIVE_PREFIX), BATCH_LIMIT)

ActiveCrawlBatch(d) ==
    GetRange(d.activeCrawl, ACTIVE_CRAWL_PREFIX, end_key(ACTIVE_CRAWL_PREFIX), BATCH_LIMIT)

\* a pass that also clears the records that expire at the call's start time
ExpiredActive_Inclusive(f, batch, now) == SelectSeq(batch, LAMBDA k : f[k] <= now /\ Len(k) > 5)

\* the keys of a batch that the pass clears (lines 920-925)
ExpiredActive(f, batch, now) == SelectSeq(batch, LAMBDA k : f[k] < now /\ Len(k) > 5)

\* the id that follows the prefix byte of an active key (lines 925-926)
ActiveKeyId(key) == SubSeq(key, 6, 5 + FromBEUnsigned(SubSeq(key, 2, 5)))

\* the transaction of a pass: a clear and an atomic add of -1 for every key
ActiveSweepTx(d, keys) ==
    LET cleared == {keys[i] : i \in 1..Len(keys)}
        counter_key(k) == build_counter_key(COUNTER_ACTIVE_TEAM, ActiveKeyId(k))
    IN  [d EXCEPT !.active = [k \in DOMAIN d.active \ cleared |-> d.active[k]],
                  !.counters =
                      [ck \in DOMAIN d.counters \cup {counter_key(k) : k \in cleared} |->
                          CounterValue(d.counters, ck)
                              - Cardinality({k \in cleared : counter_key(k) = ck})]]

ActiveCrawlSweepTx(d, keys) ==
    LET cleared == {keys[i] : i \in 1..Len(keys)}
        counter_key(k) == build_counter_key(COUNTER_ACTIVE_CRAWL, ActiveKeyId(k))
    IN  [d EXCEPT !.activeCrawl = [k \in DOMAIN d.activeCrawl \ cleared |-> d.activeCrawl[k]],
                  !.counters =
                      [ck \in DOMAIN d.counters \cup {counter_key(k) : k \in cleared} |->
                          CounterValue(d.counters, ck)
                              - Cardinality({k \in cleared : counter_key(k) = ck})]]

ActiveSweepStart(p) ==
    /\ Ready(p)
    /\ calls' = calls + 1
    /\ proc' = [proc EXCEPT ![p] =
            [Call(p, "clean_expired_active_jobs") EXCEPT !.pc = "active_read", !.now = clock]]
    /\ UNCHANGED <<db, clock, version, hist>>

\* the range read of a pass of the first loop (lines 908-918)
ActiveSweepRead(p) ==
    /\ proc[p].pc = "active_read"
    /\ \E batch \in {ActiveBatch(db)} :
          proc' = [proc EXCEPT ![p] =
                      [proc[p] EXCEPT !.pc = "active_commit", !.batchCount = Len(batch),
                                      !.toCheck = ExpiredActive(db.active, batch, proc[p].now)]]
    /\ UNCHANGED <<db, clock, version, hist, calls>>

\* its commit and the test that ends the loop (lines 937-941)
ActiveSweepCommit(p) ==
    /\ proc[p].pc = "active_commit"
    /\ db' = ActiveSweepTx(db, proc[p].toCheck)
    /\ proc' = [proc EXCEPT ![p] =
            [proc[p] EXCEPT !.pc = IF proc[p].batchCount < BATCH_LIMIT
                                   THEN "active_crawl_read" ELSE "active_read",
                            !.cleaned = @ + Len(proc[p].toCheck), !.toCheck = <<>>]]
    /\ UNCHANGED <<clock, version, hist, calls>>

\* the second loop (lines 944-979)
ActiveCrawlSweepRead(p) ==
    /\ proc[p].pc = "active_crawl_read"
    /\ \E batch \in {ActiveCrawlBatch(db)} :
          proc' = [proc EXCEPT ![p] =
                      [proc[p] EXCEPT !.pc = "active_crawl_commit", !.batchCount = Len(batch),
                                      !.toCheck = ExpiredActive(db.activeCrawl, batch,
                                                                proc[p].now)]]
    /\ UNCHANGED <<db, clock, version, hist, calls>>

ActiveCrawlSweepCommit(p) ==
    /\ proc[p].pc = "active_crawl_commit"
    /\ db' = ActiveCrawlSweepTx(db, proc[p].toCheck)
    /\ proc' = [proc EXCEPT ![p] =
            IF proc[p].batchCount < BATCH_LIMIT
            THEN [Return(proc[p], "Ok") EXCEPT !.cleaned = proc[p].cleaned + Len(proc[p].toCheck)]
            ELSE [proc[p] EXCEPT !.pc = "active_crawl_read",
                                 !.cleaned = @ + Len(proc[p].toCheck), !.toCheck = <<>>]]
    /\ UNCHANGED <<clock, version, hist, calls>>

\* push_active_job, or push_crawl_active_job, of jobs lo..hi at time 0
RECURSIVE BulkActive(_, _, _, _, _)
BulkActive(d, crawl, timeout, lo, hi) ==
    IF lo > hi \/ ~Evaluated(d) THEN d
    ELSE IF lo = hi
         THEN IF crawl THEN PushCrawlActiveTx(d, 0, <<99>>, BulkJobId(lo), timeout)
              ELSE PushActiveTx(d, 0, <<116>>, BulkJobId(lo), timeout)
    ELSE LET mid == (lo + hi) \div 2
         IN  BulkActive(BulkActive(d, crawl, timeout, lo, mid), crawl, timeout, mid + 1, hi)

\* how many active records there are: none, one, a batch, and one less or more
ActiveCounts == {0, 1, BATCH_LIMIT - 1, BATCH_LIMIT, BATCH_LIMIT + 1}

\* the timeouts of the active records: expired, or not, at time 2
BulkTimeouts == {1, 3}

\* job "a", pushed with timeout 1 and claimed at time 0, and n active records
\* of a team or of a crawl, all pushed at time 0 with one timeout; it is time 2
InitJanitor ==
    /\ \E n \in ActiveCounts, crawl \in BOOLEAN, timeout \in BulkTimeouts :
          LET d1 == PushTx(EmptyDb, 0, <<116>>, <<97>>, 1, Some(1), None)
              d2 == ClaimTx(d1, 0, <<97>>, WorkerIdOf(1),
                            build_queue_key(<<116>>, 1, 0, <<97>>), 0)
          IN  db = BulkActive(d2, crawl, timeout, 0, n - 1)
    /\ pushed = {<<97>>}
    /\ version = 1
    /\ clock = 2
    /\ proc = [p \in AllProcs |-> IdleProc]
    /\ popLog = <<>>
    /\ released = {}
    /\ issued = {}
    /\ doneTrue = EmptyMap
    /\ calls = 0

\* the janitor calls its routines, one after the other, in any order
NextJanitor ==
    \/ CleanExpiredStart(Janitor)
    \/ CleanExpiredBatch(Janitor)
    \/ OrphanScan(Janitor)
    \/ OrphanCheck(Janitor)
    \/ OrphanCommit(Janitor)
    \/ ActiveSweepStart(Janitor)
    \/ ActiveSweepRead(Janitor)
    \/ ActiveSweepCommit(Janitor)
    \/ ActiveCrawlSweepRead(Janitor)
    \/ ActiveCrawlSweepCommit(Janitor)

SpecJanitor == InitJanitor /\ [][NextJanitor]_vars

-----------------------------------------------------------------------------
(* Claims checked under SpecSweep: one call of clean_expired_jobs            *)

\* the TTL entries that a sweep at time now has still to read
ExpiredLeft(now) ==
    {k \in DOMAIN db.ttlIndex :
        InRange(k, TTL_INDEX_PREFIX, build_ttl_index_prefix_until(now))}

\* the queue records whose deadline has passed at time now
ExpiredRecords(now) ==
    {k \in DOMAIN db.queue :
        IsSome(db.queue[k].timesOutAt) /\ Unwrap(db.queue[k].timesOutAt) < now}

SweepReturned(p) == proc[p].op = "clean_expired_jobs" /\ proc[p].pc = "done"

\* C12: once a clean_expired_jobs call has returned, the store holds no TTL
\* entry and no queue record of a job that had expired when the call started,
\* whatever other expired entries there were.
C12_SweptByOneCall ==
    \A p \in AllProcs :
        SweepReturned(p) =>
            ExpiredLeft(proc[p].now) = {} /\ ExpiredRecords(proc[p].now) = {}

-----------------------------------------------------------------------------
(* Claims checked under Spec: expired jobs                                   *)

\* C13: pop_next_job never returns a job that had expired when the pop scanned
\* the queue, and when a clean_expired_jobs call returns that follows the pops
\* (nothing else is in flight, and no handle was completed twice)
\* get_team_queue_count is the number of the team's queue records.
C13_ExpiredCleanedOnce ==
    /\ [](\A p \in Procs :
             proc[p].op = "pop_next_job" /\ proc[p].pc = "done" /\ proc[p].ret = "Some"
                 => ~IsExpired(proc[p].retJob, proc[p].now))
    /\ [][\A p \in Procs :
             ( /\ proc[p].pc = "sweep_batch" /\ proc'[p].pc = "done"
               /\ \A q \in Procs \ {p} : proc[q].pc \in {"idle", "done"}
               /\ \E q \in Procs \ {p} : proc[q].op = "pop_next_job"
               /\ \A h \in DOMAIN doneTrue : doneTrue[h] <= 1 )
                 => \A t \in TeamIds :
                        get_team_queue_count(db', t)
                            = Cardinality({k \in DOMAIN db'.queue : db'.queue[k].teamId = t})]_vars

-----------------------------------------------------------------------------
(* Claims checked under SpecOrphans: one call of clean_orphaned_claims       *)

\* the claims whose queue record is absent
OrphanedClaims ==
    {k \in DOMAIN db.claims :
        LET queue_key == B64Decode(db.claims[k].queueKey)
        IN  ~IsSome(queue_key) \/ Unwrap(queue_key) \notin DOMAIN db.queue}

\* C14: once a clean_orphaned_claims call has returned, no claim is left whose
\* queue record was absent when the call started, whatever the number and the
\* position of the other claims.
C14_OrphansReaped ==
    \A p \in AllProcs :
        proc[p].op = "clean_orphaned_claims" /\ proc[p].pc = "done" => OrphanedClaims = {}

-----------------------------------------------------------------------------
(* Claims checked under SpecAbandon                                          *)

\* worker p stopped after committing its claim for a job
Stopped(p) == proc[p].pc = "stopped"

\* the claim that worker p committed before it stopped is still stored
ClaimHeld(p) ==
    \E k \in DOMAIN db.claims :
        /\ Stopped(p)
        /\ HasPrefix(k, build_claims_prefix(Head(proc[p].cands).job.id))
        /\ db.claims[k].workerId = proc[p].worker

\* C15: when a worker stops after the commit of its claim, the janitor's runs
\* eventually remove that claim.
C15_AbandonedReclaimed == \A p \in Procs : Stopped(p) ~> ~ClaimHeld(p)

-----------------------------------------------------------------------------
(* Claims checked under SpecPlanned: the TTL index                           *)

\* the TTL entries of a job, whatever their expiry
TtlEntriesOf(team_id, job_id) ==
    {k \in DOMAIN db.ttlIndex :
        TtlKeyParses(k) /\ TtlTeamId(k) = team_id /\ TtlJobId(k) = job_id}

\* the push was given no crawl and a timeout greater than zero
WithDeadline(given) ==
    given.crawl = None /\ IsSome(given.timeout) /\ Unwrap(given.timeout) > 0

-----------------------------------------------------------------------------
(* Claims checked under Spec: the crawl index                                *)

\* C17: in every state, the crawl-index entry of (crawlId, jobId) exists if and
\* only if there is a queue record of jobId with that crawlId.
C17_CrawlIndexIffQueued ==
    \A c \in CrawlIds, j \in JobIds :
        build_crawl_index_key(c, j) \in DOMAIN db.crawlIndex
            <=> \E k \in DOMAIN db.queue :
                    db.queue[k].id = j /\ db.queue[k].crawlId = Some(c)

\* a job of a crawl has been completed and another is still queued with its
\* crawl-index entry
C17_Witness ==
    /\ \E h \in DOMAIN doneTrue :
           /\ doneTrue[h] >= 1
           /\ \E p \in Procs : proc[p].op = "complete_job" /\ IsSome(proc[p].retJob.crawlId)
    /\ \E k \in DOMAIN db.queue :
           /\ IsSome(db.queue[k].crawlId)
           /\ build_crawl_index_key(Unwrap(db.queue[k].crawlId), db.queue[k].id)
                  \in DOMAIN db.crawlIndex

-----------------------------------------------------------------------------
(* Claims checked under SpecActive                                           *)

\* the record that the remove of worker p is about is in its active subspace
RecordPresent(d, l) ==
    IF l.op = "remove_active_job" THEN l.key \in DOMAIN d.active
    ELSE l.key \in DOMAIN d.activeCrawl

ActiveCounterKeys ==
    {build_counter_key(COUNTER_ACTIVE_TEAM, t) : t \in ActiveTeamIds}
        \cup {build_counter_key(COUNTER_ACTIVE_CRAWL, c) : c \in CrawlIds}

\* C18: a remove_active_job or remove_crawl_active_job that commits when its
\* record is absent changes nothing in the store, and whenever an active
\* counter goes down it goes down by one in a step that removes one record
\* that was present: a record is decremented for once, however many removes
\* of it run together or one after the other.
C18_RemoveIdempotent ==
    [][/\ \A p \in Procs :
              ( /\ proc[p].pc = "remove_commit" /\ proc'[p].pc = "done"
                /\ ~RecordPresent(db, proc[p]) ) => db' = db
       /\ \A ck \in ActiveCounterKeys :
              CounterValue(db'.counters, ck) < CounterValue(db.counters, ck)
                  => /\ CounterValue(db'.counters, ck) = CounterValue(db.counters, ck) - 1
                     /\ Cardinality(DOMAIN db'.active) + Cardinality(DOMAIN db'.activeCrawl)
                            = Cardinality(DOMAIN db.active) + Cardinality(DOMAIN db.activeCrawl) - 1
      ]_vars

\* two removes of one record ran together: both read it, one committed the
\* clear and the decrement, the other was refused
C18_Witness ==
    \E p \in Procs, q \in Procs :
        /\ p # q
        /\ proc[p].op = proc[q].op /\ proc[p].op \in {"remove_active_job", "remove_crawl_active_job"}
        /\ proc[p].pc = "done" /\ proc[q].pc = "done"
        /\ proc[p].team = proc[q].team /\ proc[p].arg = proc[q].arg
        /\ proc[p].ret = "Ok" /\ proc[q].ret = "Err"

-----------------------------------------------------------------------------
(* Reconciles that run with nothing else in flight *)

\* nothing is between two of its transactions
Quiet == \A q \in AllProcs : proc[q].pc \in {"idle", "done"}

\* the store after push_job(t, a, timeout 1) at time 0 and, at time 2, the
\* cleanup transactions of two pop_next_job calls that both scanned the record
DriftedDb ==
    LET d1 == PushTx(EmptyDb, 0, <<116>>, <<97>>, 1, Some(1), None)
        expired_jobs == PopExpired(PopRange(d1, <<116>>), 2)
    IN  PopCleanupTx(PopCleanupTx(d1, <<116>>, expired_jobs), <<116>>, expired_jobs)

InitReconcile ==
    /\ \E drifted \in BOOLEAN :
          /\ db = IF drifted THEN DriftedDb ELSE EmptyDb
          /\ clock = IF drifted THEN 2 ELSE 0
          /\ pushed = IF drifted THEN {<<97>>} ELSE {}
    /\ version = 0
    /\ proc = [p \in AllProcs |-> IdleProc]
    /\ popLog = <<>>
    /\ released = {}
    /\ issued = {}
    /\ doneTrue = EmptyMap
    /\ calls = 0

\* every operation starts when no other is in flight, a reconcile too, and none
\* starts before a reconcile in flight has returned
NextReconcile ==
    \/ Tick
    \/ \E p \in Procs : Quiet /\ PushJob(p)
    \/ \E p \in Procs : Quiet /\ PushActiveJob(p)
    \/ \E p \in Procs : Quiet /\ PushCrawlActiveJob(p)
    \/ \E p \in Procs : Quiet /\ RemoveActiveJob(p)
    \/ \E p \in Procs : Quiet /\ RemoveCrawlActiveJob(p)
    \/ \E p \in Procs : Quiet /\ ReconcileRead(p)
    \/ \E p \in Procs : ReconcileCommit(p)

SpecReconcile == InitReconcile /\ [][NextReconcile]_vars

-----------------------------------------------------------------------------
(* Claims checked under SpecJanitor                                          *)

\* worker p ends a pass of the loop of its routine and goes round again
GoesRound(p, read, commit) ==
    proc'[p] # proc[p] /\ proc[p].pc = commit /\ proc'[p].pc = read

\* C19: every janitor routine terminates, whatever the store holds: a pass of
\* clean_expired_jobs or of clean_orphaned_claims that goes round again has
\* counted one more of at most MAX_BATCHES passes, and a pass of
\* clean_expired_active_jobs that goes round again has removed a record from
\* the subspace it reads.
C19_JanitorTerminates ==
    [][\A p \in AllProcs :
          /\ GoesRound(p, "sweep_batch", "sweep_batch") \/ GoesRound(p, "orphan_scan", "orphan_check")
                 \/ GoesRound(p, "orphan_scan", "orphan_commit")
                 => proc'[p].iter = proc[p].iter + 1 /\ proc'[p].iter < MAX_BATCHES
          /\ GoesRound(p, "active_read", "active_commit")
                 => Cardinality(DOMAIN db'.active) < Cardinality(DOMAIN db.active)
          /\ GoesRound(p, "active_crawl_read", "active_crawl_commit")
                 => Cardinality(DOMAIN db'.activeCrawl) < Cardinality(DOMAIN db.activeCrawl)
      ]_vars

-----------------------------------------------------------------------------
(* Claims checked under SpecReconcile                                        *)

\* the counter a returned reconcile_* was called for, and the count it observed
ReconciledKey(l) == build_counter_key(l.key, l.arg)
Observed(d, l) == ActualCount(d, l.key, l.arg, l.now)

\* worker p returns from a reconcile_* in this step
ReconcileReturns(p) ==
    proc'[p] # proc[p] /\ proc'[p].op = "reconcile_counter" /\ proc'[p].pc = "done"

\* C20: a reconcile_* that runs with no other operation in flight returns the
\* observed count minus the stored counter and leaves the counter equal to the
\* observed count; when the two are equal beforehand it returns 0 and leaves
\* the store as it was.
C20_ReconcileCorrects ==
    [][\A p \in Procs :
          ReconcileReturns(p) =>
              LET l == proc'[p]
                  stored == CounterValue(db.counters, ReconciledKey(l))
              IN  /\ l.correction = Observed(db, l) - stored
                  /\ CounterValue(db'.counters, ReconciledKey(l)) = Observed(db, l)
                  /\ Observed(db', l) = Observed(db, l)
                  /\ l.correction = 0 => db' = db
                  /\ l.correction # 0 =>
                         db' = [db EXCEPT !.counters = Set(@, ReconciledKey(l), Observed(db, l))]
      ]_vars

\* a reconcile_team_queue_counter has returned a correction and the counter
\* equals the number of queue records, and another reconcile_* has returned 0
C20_Witness ==
    /\ \E p \in Procs :
          /\ proc[p].op = "reconcile_counter" /\ proc[p].pc = "done"
          /\ proc[p].key = COUNTER_TEAM /\ proc[p].correction # 0
          /\ CounterValue(db.counters, ReconciledKey(proc[p])) = Observed(db, proc[p])
    /\ \E q \in Procs :
          /\ proc[q].op = "reconcile_counter" /\ proc[q].pc = "done"
          /\ proc[q].correction = 0 /\ proc[q].ret = "0"

-----------------------------------------------------------------------------
(* Commits that fail and handles that do not decode *)

FaultJobIds == {<<97>>, <<>>}       \* "a" and the empty job id

\* texts that are not base64: one symbol, a byte outside the alphabet, and
\* padding after a symbol with trailing bits
BadHandles == {<<0>>, <<65, 0, 0, 0>>, <<0, 1, PAD, PAD>>}

\* push_job whose commit succeeds or fails: `trx.commit().await?` (line 322)
\* hands the commit error to the caller, and nothing of the transaction is stored
PushJobOutcome(p) ==
    /\ Ready(p)
    /\ calls' = calls + 1
    /\ \E team_id \in TeamIds, job_id \in FaultJobIds \ pushed, priority \in Priorities,
          timeout \in Timeouts, crawl_id \in CrawlOptions, committed \in BOOLEAN :
          /\ db' = IF committed
                   THEN PushTx(db, clock, team_id, job_id, priority, timeout, crawl_id)
                   ELSE db
          /\ proc' = [proc EXCEPT ![p] =
                        Return([Call(p, "push_job") EXCEPT !.arg = job_id],
                               IF committed THEN "Ok" ELSE "Err")]
          /\ pushed' = IF committed THEN pushed \cup {job_id} ELSE pushed
    /\ UNCHANGED <<clock, version, popLog, released, issued, doneTrue>>

\* the cleanup transaction of pop_next_job fails to commit: the result is
\* dropped (`let _ = cleanup_trx.commit().await;`, line 407) and the pop goes on;
\* expired_jobs stays in scope, unused
PopCleanupFails(p) ==
    /\ proc[p].pc = "pop_cleanup"
    /\ proc' = [proc EXCEPT ![p] =
            IF proc[p].cands = <<>> THEN Return(proc[p], "None")
            ELSE [proc[p] EXCEPT !.pc = "pop_probe"]]
    /\ UNCHANGED <<db, clock, version, hist, calls>>

NextFaults ==
    \/ Tick
    \/ \E p \in Procs : PushJobOutcome(p)
    \/ \E p \in Procs : PopScan(p)
    \/ \E p \in Procs : PopCleanup(p)
    \/ \E p \in Procs : PopCleanupFails(p)
    \/ \E p \in Procs : PopProbe(p)
    \/ \E p \in Procs : PopClaim(p)
    \/ \E p \in Procs : PopVerify(p)
    \/ \E p \in Procs : CompleteReadOf(p, issued \cup BadHandles)
    \/ \E p \in Procs : CompleteCommit(p)
    \/ \E p \in Procs : CleanExpiredStart(p)
    \/ \E p \in Procs : CleanExpiredBatch(p)

SpecFaults == Init /\ [][NextFaults]_vars

-----------------------------------------------------------------------------
(* Claims checked under SpecFaults                                           *)

\* worker p returns from the handler op in this step
Returns(p, op) == proc'[p] # proc[p] /\ proc'[p].op = op /\ proc'[p].pc = "done"

\* what a map has more than another: its new keys, no key lost, no value changed
Added(f, g) == DOMAIN g \ DOMAIN f
Extends(f, g) == DOMAIN f \subseteq DOMAIN g /\ \A k \in DOMAIN f : g[k] = f[k]

\* C21: a push_job that commits adds one queue record and +1 on the
\* team-queued counter, a TTL entry exactly when the job has a deadline, a
\* crawl-index entry and +1 on the crawl-queued counter exactly when it has a
\* crawl, and nothing else; one whose commit fails returns the error and
\* leaves the store as it was.
C21_PushAllOrNothing ==
    [][\A p \in Procs :
          Returns(p, "push_job") =>
              IF proc'[p].ret = "Ok"
              THEN /\ Cardinality(Added(db.queue, db'.queue)) = 1
                   /\ Extends(db.queue, db'.queue) /\ Extends(db.ttlIndex, db'.ttlIndex)
                   /\ Extends(db.crawlIndex, db'.crawlIndex)
                   /\ db'.claims = db.claims /\ db'.active = db.active
                   /\ db'.activeCrawl = db.activeCrawl
                   /\ \E k \in Added(db.queue, db'.queue) :
                         LET job == db'.queue[k]
                             team == build_counter_key(COUNTER_TEAM, job.teamId)
                             crawls == IF IsSome(job.crawlId)
                                       THEN {build_counter_key(COUNTER_CRAWL, Unwrap(job.crawlId))}
                                       ELSE {}
                         IN  /\ job.id = proc'[p].arg
                             /\ Added(db.ttlIndex, db'.ttlIndex) =
                                    IF IsSome(job.timesOutAt)
                                    THEN {build_ttl_index_key(Unwrap(job.timesOutAt),
                                                              job.teamId, job.id)}
                                    ELSE {}
                             /\ Added(db.crawlIndex, db'.crawlIndex) =
                                    IF IsSome(job.crawlId)
                                    THEN {build_crawl_index_key(Unwrap(job.crawlId), job.id)}
                                    ELSE {}
                             /\ \A ck \in DOMAIN db.counters \cup DOMAIN db'.counters :
                                    CounterValue(db'.counters, ck) =
                                        CounterValue(db.counters, ck)
                                            + (IF ck \in {team} \cup crawls THEN 1 ELSE 0)
                             /\ {team} \cup crawls \subseteq DOMAIN db'.counters
              ELSE proc'[p].ret = "Err" /\ db' = db
      ]_vars

\* a push_job with a deadline and one with a crawl have committed, and one has
\* returned the error of its commit
C21_Witness ==
    /\ \E k \in DOMAIN db.ttlIndex : TRUE
    /\ \E k \in DOMAIN db.crawlIndex : TRUE
    /\ \E p \in Procs : proc[p].op = "push_job" /\ proc[p].pc = "done" /\ proc[p].ret = "Err"
    /\ \E p \in Procs : proc[p].op = "push_job" /\ proc[p].pc = "done" /\ proc[p].ret = "Ok"

\* the cleanup transaction of worker p's pop_next_job has failed to commit and
\* the pop is going through its candidates
CleanupFailed(p) ==
    /\ proc[p].op = "pop_next_job" /\ proc[p].pc \in {"pop_probe", "pop_claim", "pop_verify"}
    /\ proc[p].expired # <<>>

\* C22: a cleanup transaction of pop_next_job that fails to commit does not fail
\* the pop, which goes on to its candidates or returns none when it has no
\* candidate; and a clean_expired_jobs that runs afterwards, started no earlier
\* than the pop, removes the queue records and TTL entries the cleanup left.
C22_CleanupFailureSwallowed ==
    [][\A p \in Procs :
          /\ proc[p].pc = "pop_cleanup" /\ proc'[p] # proc[p] /\ db' = db =>
                 IF proc[p].cands = <<>>
                 THEN proc'[p].pc = "done" /\ proc'[p].ret = "None"
                 ELSE proc'[p].pc = "pop_probe" /\ proc'[p].cands = proc[p].cands
          /\ \A q \in Procs :
                 CleanupFailed(p) /\ Returns(q, "clean_expired_jobs")
                     /\ proc[q].now >= proc[p].now =>
                 \A i \in 1..Len(proc[p].expired) :
                     LET kv == proc[p].expired[i]
                     IN  /\ kv.key \notin DOMAIN db'.queue
                         /\ build_ttl_index_key(Unwrap(kv.job.timesOutAt), kv.job.teamId,
                                                kv.job.id) \notin DOMAIN db'.ttlIndex
      ]_vars

\* C24: complete_job called with a handle that is not base64 returns the error
\* of the decoding, which is neither false nor the error of a read or a commit,
\* at its first step, before it opens a transaction, and the store is as it was.
C24_BadHandleRejected ==
    [][\A p \in Procs :
          Returns(p, "complete_job") /\ proc'[p].arg \in BadHandles =>
              /\ proc'[p].ret = "Other"
              /\ proc[p].pc \in {"idle", "done"}
              /\ db' = db
      ]_vars

\* both workers have called complete_job with a handle that is not base64, while
\* a job is queued
C24_Witness ==
    /\ DOMAIN db.queue # {}
    /\ \A p \in Procs :
          /\ proc[p].op = "complete_job" /\ proc[p].pc = "done"
          /\ proc[p].arg \in BadHandles /\ proc[p].ret = "Other"
    /\ \E p \in Procs, q \in Procs : proc[p].arg # proc[q].arg

-----------------------------------------------------------------------------
(* The janitor's sweeps when a commit fails *)

\* the commit of a batch of clean_expired_jobs fails: `trx.commit().await?`
\* (line 892) returns the error from the call
CleanExpiredBatchFails(p) ==
    /\ proc[p].pc = "sweep_batch"
    /\ SweepTx(db, ExpiredBatch(db, proc[p].now)) # db
    /\ proc' = [proc EXCEPT ![p] = Return(proc[p], "Err")]
    /\ UNCHANGED <<db, clock, version, hist, calls>>

\* the commit of the cleanup transaction of clean_orphaned_claims fails (line 661)
OrphanCommitFails(p) ==
    /\ proc[p].pc = "orphan_commit"
    /\ proc' = [proc EXCEPT ![p] = Return(proc[p], "Err")]
    /\ UNCHANGED <<db, clock, version, hist, calls>>

\* the commit of a pass of clean_expired_active_jobs fails (lines 937 and 974)
ActiveSweepCommitFails(p) ==
    /\ proc[p].pc \in {"active_commit", "active_crawl_commit"}
    /\ proc[p].toCheck # <<>>
    /\ proc' = [proc EXCEPT ![p] = Return(proc[p], "Err")]
    /\ UNCHANGED <<db, clock, version, hist, calls>>

NextJanitorFaults ==
    \/ NextJanitor
    \/ CleanExpiredBatchFails(Janitor)
    \/ OrphanCommitFails(Janitor)
    \/ ActiveSweepCommitFails(Janitor)

SpecJanitorFaults == InitJanitor /\ [][NextJanitorFaults]_vars

-----------------------------------------------------------------------------
(* Claims checked under SpecJanitorFaults                                    *)

\* C23: clean_expired_jobs, clean_expired_active_jobs and clean_orphaned_claims
\* never return the error of a commit of theirs.
C23_SweepsSwallowErrors ==
    \A p \in AllProcs :
        proc[p].pc = "done"
            /\ proc[p].op \in {"clean_expired_jobs", "clean_expired_active_jobs",
                               "clean_orphaned_claims"}
            => proc[p].ret # "Err"

-----------------------------------------------------------------------------
(* Claims checked under SpecPops: the claim keys                             *)

\* the keys of the claims stored for a job
JobClaims(d, job_id) ==
    LET claims_prefix == build_claims_prefix(job_id)
    IN  {k \in DOMAIN d.claims : InRange(k, claims_prefix, end_key(claims_prefix))}

\* worker p commits its claim transaction in this step
ClaimCommits(p) == proc[p].pc = "pop_claim" /\ proc'[p] # proc[p]

\* C25: a claim transaction always commits, whatever claims other workers have
\* committed for the job since the probe: it adds one claim entry of its own,
\* for its job and with its workerId, and leaves every stored claim as it is.
C25_ClaimsAllCommit ==
    [][\A p \in AllProcs :
          ClaimCommits(p) =>
              LET job_id == Head(proc[p].cands).job.id
              IN  /\ proc'[p].pc = "pop_verify"
                  /\ Extends(db.claims, db'.claims)
                  /\ Cardinality(Added(db.claims, db'.claims)) = 1
                  /\ Added(db.claims, db'.claims) \subseteq JobClaims(db', job_id)
                  /\ \A k \in Added(db.claims, db'.claims) :
                         db'.claims[k].workerId = proc[p].worker
      ]_vars

\* three workers have each a claim stored for one job
C25_Witness ==
    \E job_id \in JobIds :
        /\ Cardinality(JobClaims(db, job_id)) = 3
        /\ \A p \in AllProcs :
               \E k \in JobClaims(db, job_id) : db.claims[k].workerId = WorkerIdOf(p)

\* the claim of a job whose key is below the keys of all its other claims
EarliestClaim(d, job_id) ==
    CHOOSE k \in JobClaims(d, job_id) :
        \A o \in JobClaims(d, job_id) : o = k \/ KeyLess(k, o)

\* C26: the key of a claim that commits is above the keys of the claims stored
\* for the job, so the claims of a job are stored in the order of their commits;
\* and the verify step of pop_next_job returns the job exactly when the stored
\* claim with the lowest key names the worker, and goes to the next candidate
\* (or returns none after the last) otherwise.
C26_EarliestClaimWins ==
    [][\A p \in AllProcs :
          /\ ClaimCommits(p) =>
                 LET job_id == Head(proc[p].cands).job.id
                 IN  \A k \in Added(db.claims, db'.claims) :
                         \A o \in JobClaims(db, job_id) : KeyLess(o, k)
          /\ proc[p].pc = "pop_verify" /\ proc'[p] # proc[p] =>
                 LET kv == Head(proc[p].cands)
                     stored == JobClaims(db, kv.job.id)
                     mine == stored # {}
                                 /\ db.claims[EarliestClaim(db, kv.job.id)].workerId
                                        = proc[p].worker
                 IN  IF mine
                     THEN /\ proc'[p].pc = "done" /\ proc'[p].ret = "Some"
                          /\ proc'[p].retJob = kv.job
                     ELSE \/ proc'[p].pc = "pop_probe" /\ proc'[p].cands = Tail(proc[p].cands)
                          \/ /\ Len(proc[p].cands) = 1
                             /\ proc'[p].pc = "done" /\ proc'[p].ret = "None"
      ]_vars

\* one worker has been returned a job for which a second worker holds a later
\* claim, and that second worker has lost and returned none
C26_Witness ==
    \E p \in AllProcs, q \in AllProcs :
        /\ p # q
        /\ proc[p].pc = "done" /\ proc[p].ret = "Some"
        /\ proc[q].pc = "done" /\ proc[q].ret = "None" /\ proc[q].op = "pop_next_job"
        /\ Cardinality(JobClaims(db, proc[p].retJob.id)) >= 2
        /\ db.claims[EarliestClaim(db, proc[p].retJob.id)].workerId = WorkerIdOf(p)
        /\ \E k \in JobClaims(db, proc[p].retJob.id) : db.claims[k].workerId = WorkerIdOf(q)

-----------------------------------------------------------------------------
(* A job that a worker holds: pops, releases, completes and the janitor      *)
(* after the winning claim has committed                                     *)

HeldJobId == <<97>>
HeldQueueKey == build_queue_key(<<116>>, 1, 0, HeldJobId)
HeldClaimKey == build_claim_key_with_versionstamp(HeldJobId, WorkerIdOf(1), 0)

\* job "a" of team "t", pushed at time 0 with or without a timeout, has been
\* popped by worker 1: its claim committed at version 0 and its pop returned it
InitHeld ==
    /\ \E timeout \in Timeouts :
          LET d1 == PushTx(EmptyDb, 0, <<116>>, HeldJobId, 1, timeout, None)
              popped == [IdleProc EXCEPT !.op = "pop_next_job", !.team = <<116>>, !.flip = 1]
          IN  /\ db = ClaimTx(d1, 0, HeldJobId, WorkerIdOf(1), HeldQueueKey, 0)
              /\ proc = [p \in AllProcs |->
                            IF p = 1
                            THEN [Return(popped, "Some") EXCEPT
                                      !.retJob = d1.queue[HeldQueueKey],
                                      !.retKey = B64Encode(HeldQueueKey)]
                            ELSE IdleProc]
              /\ popLog = <<d1.queue[HeldQueueKey]>>
    /\ pushed = {HeldJobId}
    /\ issued = {B64Encode(HeldQueueKey)}
    /\ clock = 0
    /\ version = 1
    /\ released = {}
    /\ doneTrue = EmptyMap
    /\ calls = 0

\* any worker pops; the worker that holds the job releases or completes
NextHeld ==
    \/ Tick
    \/ \E p \in Procs : PopScan(p)
    \/ \E p \in Procs : PopCleanup(p)
    \/ \E p \in Procs : PopProbe(p)
    \/ \E p \in Procs : PopClaim(p)
    \/ \E p \in Procs : PopVerify(p)
    \/ ReleaseJob(1)
    \/ CompleteRead(1)
    \/ CompleteCommit(1)
    \/ JanitorNext

SpecHeld == InitHeld /\ [][NextHeld]_vars

-----------------------------------------------------------------------------
(* Claims checked under SpecHeld                                             *)

\* no release_job of the held job and no complete_job has committed
Held == HeldJobId \notin released /\ doneTrue = EmptyMap

\* C27: a pop_next_job whose probe finds a claim stored for its candidate goes
\* to the next candidate and writes nothing; and as long as neither a
\* release_job of the held job nor a complete_job has committed, no pop that
\* scans after the winning claim committed returns the job or stores a claim
\* for it.
C27_HeldJobNotReclaimed ==
    [][/\ \A p \in Procs :
             proc[p].pc = "pop_probe" /\ proc'[p] # proc[p]
                 /\ JobClaims(db, Head(proc[p].cands).job.id) # {} =>
                 /\ db' = db
                 /\ proc'[p] = NextCandidate(proc[p])
       /\ Held' => /\ JobClaims(db', HeldJobId) \subseteq {HeldClaimKey}
                   /\ Len(popLog') = 1
      ]_vars

-----------------------------------------------------------------------------
(* Queues loaded with priorities from the whole range of i32 *)

\* priorities at the ends of the range and on both sides of the values whose
\* first byte is 0xff
RangePriorities == {1, 2147483647, -2147483647, -16777217, -16777216, -1}

RangePushes ==
    [team : TeamIds, priority : RangePriorities, at : {0}, timeout : {None},
     crawl : CrawlOptions]

InitRange == InitLoaded(JobIds, RangePushes, 1)

SpecRange == InitRange /\ [][NextOrder]_vars

-----------------------------------------------------------------------------
(* Claims checked under SpecRange                                            *)

\* C28: every stored key lies in the range [prefix, end_key(prefix)) its
\* subspace is scanned by: every queue record of a team is among the records
\* the scan of pop_next_job over the team's queue prefix returns, every
\* crawl-index entry is in the range of its crawl and every claim in the range
\* of its job.
C28_StoredKeysInScanRange ==
    /\ \A k \in DOMAIN db.queue :
           \E i \in 1..Len(PopRange(db, db.queue[k].teamId)) :
               PopRange(db, db.queue[k].teamId)[i].key = k
    /\ \A k \in DOMAIN db.crawlIndex :
           \E crawl_id \in CrawlIds :
               InRange(k, build_crawl_index_prefix(crawl_id),
                       end_key(build_crawl_index_prefix(crawl_id)))
    /\ \A k \in DOMAIN db.claims : \E job_id \in JobIds : k \in JobClaims(db, job_id)

\* C29: the integer fields of a key order the keys as their values do: for
\* any two queue records in the store, the two queue keys that differ only
\* in the priority (the team, createdAt and jobId of the first record, the
\* priority of either) compare byte-wise as the two priorities compare as
\* signed 32-bit numbers, negative priorities included.
C29_KeyOrderIsNumeric ==
    \A k1 \in DOMAIN db.queue : \A k2 \in DOMAIN db.queue :
        LET a == db.queue[k1]
            b == db.queue[k2]
        IN  KeyLess(build_queue_key(a.teamId, a.priority, a.createdAt, a.id),
                    build_queue_key(a.teamId, b.priority, a.createdAt, a.id))
                <=> a.priority < b.priority

-----------------------------------------------------------------------------
(* clean_orphaned_claims beside workers that release and complete, checked   *)
(* under SpecHeld                                                            *)

\* the janitor's clean_orphaned_claims takes the step that leaves pc
OrphanStep(pc) == proc[Janitor].pc = pc /\ proc'[Janitor] # proc[Janitor]

\* the claims a step removes from the store
ClaimsRemoved == DOMAIN db.claims \ DOMAIN db'.claims

\* a claim is put on the list of orphans only if its value names no queue
\* key or the check transaction finds no record under the key it names
CheckedAbsent ==
    OrphanStep("orphan_check") /\ proc'[Janitor].pc = "orphan_commit" =>
        \A i \in 1..Len(proc'[Janitor].toCheck) :
            LET c == proc'[Janitor].toCheck[i]
            IN  ~IsSome(c.queue_key) \/ Unwrap(c.queue_key) \notin DOMAIN db.queue

\* the cleanup commit removes no claim whose value names a stored queue record
LiveClaimsKept ==
    OrphanStep("orphan_commit") =>
        \A k \in ClaimsRemoved :
            LET queue_key == B64Decode(db.claims[k].queueKey)
            IN  ~IsSome(queue_key) \/ Unwrap(queue_key) \notin DOMAIN db.queue

\* the cleanup commit adds to the number the call returns the number of
\* claims it removes
CountsRemoved ==
    OrphanStep("orphan_commit") =>
        proc'[Janitor].cleaned - proc[Janitor].cleaned = Cardinality(ClaimsRemoved)

\* C30: clean_orphaned_claims removes a claim only if the queue record named
\* by the claim's value was absent when its check transaction read it (or the
\* value names no queue key), it removes no claim whose queue record is
\* stored, and the number it returns is the number of claims it removed.
C30_OrphanCleanCounts == [][CheckedAbsent /\ LiveClaimsKept /\ CountsRemoved]_vars

-----------------------------------------------------------------------------
(* clean_expired_active_jobs over subspaces that hold expired records and    *)
(* records still running, in any order                                       *)

\* how many active records a subspace holds
MixCounts == {1, 2, BATCH_LIMIT - 1, BATCH_LIMIT + 1}

\* records 0..split-1 were pushed with one timeout and the others with the
\* other timeout, all at time 0: timeout 0 has expired at time 1, timeout 1
\* expires at time 1 and is not yet expired then
MixTimeouts == {<<0, 1>>, <<1, 0>>}

MixedActive(d, crawl, n, split, timeouts) ==
    BulkActive(BulkActive(d, crawl, timeouts[1], 0, split - 1), crawl, timeouts[2], split, n - 1)

\* the team subspace, the crawl subspace or both are filled; it is time 1
InitMixed ==
    /\ \E n \in MixCounts, timeouts \in MixTimeouts, team \in BOOLEAN, crawl \in BOOLEAN :
       \E split \in {0, 1, n \div 2, n - 1} :
          LET d1 == IF team THEN MixedActive(EmptyDb, FALSE, n, split, timeouts) ELSE EmptyDb
          IN  /\ team \/ crawl
              /\ db = IF crawl THEN MixedActive(d1, TRUE, n, split, timeouts) ELSE d1
    /\ pushed = {}
    /\ version = 0
    /\ clock = 1
    /\ proc = [p \in AllProcs |-> IdleProc]
    /\ popLog = <<>>
    /\ released = {}
    /\ issued = {}
    /\ doneTrue = EmptyMap
    /\ calls = 0

\* time passes while the janitor calls clean_expired_active_jobs
NextMixed ==
    \/ Tick
    \/ ActiveSweepStart(Janitor)
    \/ ActiveSweepRead(Janitor)
    \/ ActiveSweepCommit(Janitor)
    \/ ActiveCrawlSweepRead(Janitor)
    \/ ActiveCrawlSweepCommit(Janitor)

SpecMixed == InitMixed /\ [][NextMixed]_vars

-----------------------------------------------------------------------------
(* Claims checked under SpecMixed                                            *)

\* the active records a step removes, and the decrements they account for
ActiveRemoved == DOMAIN db.active \ DOMAIN db'.active
ActiveCrawlRemoved == DOMAIN db.activeCrawl \ DOMAIN db'.activeCrawl

RemovedFor(ck) ==
    Cardinality({k \in ActiveRemoved :
                    build_counter_key(COUNTER_ACTIVE_TEAM, ActiveKeyId(k)) = ck})
    + Cardinality({k \in ActiveCrawlRemoved :
                    build_counter_key(COUNTER_ACTIVE_CRAWL, ActiveKeyId(k)) = ck})

\* C31: when clean_expired_active_jobs returns, no team-active or crawl-active
\* record is left whose expiresAt is earlier than the call's start time; every
\* record a step of the call removes has an expiresAt earlier than that time,
\* and every counter goes down by exactly the number of records removed for
\* its team or crawl, wherever the expired records stand in the subspace.
C31_ActiveSweepExact ==
    [][/\ Returns(Janitor, "clean_expired_active_jobs") =>
              /\ \A k \in DOMAIN db'.active : db'.active[k] >= proc'[Janitor].now
              /\ \A k \in DOMAIN db'.activeCrawl : db'.activeCrawl[k] >= proc'[Janitor].now
       /\ \A k \in ActiveRemoved : db.active[k] < proc[Janitor].now
       /\ \A k \in ActiveCrawlRemoved : db.activeCrawl[k] < proc[Janitor].now
       /\ \A ck \in DOMAIN db.counters \cup DOMAIN db'.counters :
              CounterValue(db'.counters, ck) = CounterValue(db.counters, ck) - RemovedFor(ck)
      ]_vars

\* a call that went round its loop has returned, having removed the expired
\* records and left one that expires at its start time
C31_Witness ==
    /\ proc[Janitor].pc = "done" /\ proc[Janitor].op = "clean_expired_active_jobs"
    /\ proc[Janitor].cleaned >= BATCH_LIMIT \div 2
    /\ \E k \in DOMAIN db.active : db.active[k] = proc[Janitor].now
    /\ Cardinality(DOMAIN db.active) > 1

-----------------------------------------------------------------------------
(* Paging through the counters with sample_team_counters and                 *)
(* sample_crawl_counters: every page is asked for after the last id of the   *)
(* page before, until a page comes back empty                                *)

\* the teams and crawls that have pushed a job: "", "t", "tt", "u"
SampleIds == <<<<>>, <<116>>, <<116, 116>>, <<117>>>>

SampleLimits == {1, 2, 3}

\* push_job of job i for team SampleIds[i], in the crawl SampleIds[i] or in none
RECURSIVE SampleStore(_, _, _, _)
SampleStore(d, teams, crawls, i) ==
    IF i > Len(SampleIds) THEN d
    ELSE SampleStore(IF i \in teams
                     THEN PushTx(d, 0, SampleIds[i], BulkJobId(i), 1, None,
                                 IF i \in crawls THEN Some(SampleIds[i]) ELSE None)
                     ELSE d,
                     teams, crawls, i + 1)

InitSample ==
    /\ \E teams \in SUBSET (1..Len(SampleIds)) : \E crawls \in SUBSET teams :
          /\ db = SampleStore(EmptyDb, teams, crawls, 1)
          /\ pushed = {BulkJobId(i) : i \in teams}
    /\ clock = 0
    /\ version = 0
    /\ proc = [p \in AllProcs |-> IdleProc]
    /\ popLog = <<>>
    /\ released = {}
    /\ issued = {}
    /\ doneTrue = EmptyMap
    /\ calls = 0

\* one page: toCheck holds the ids returned so far, arg the last of them,
\* batchCount the limit and iter the length of the page
SamplePageOf(l, ids) ==
    IF ids = <<>>
    THEN [Return(l, "Ok") EXCEPT !.toCheck = l.toCheck, !.batchCount = l.batchCount]
    ELSE [l EXCEPT !.pc = "sample_page", !.arg = Some(ids[Len(ids)]), !.iter = Len(ids),
                   !.toCheck = @ \o ids]

SampleTeamsPage(p) ==
    /\ \/ proc[p].pc \in {"idle", "done"}
       \/ proc[p].pc = "sample_page" /\ proc[p].op = "sample_team_counters"
    /\ \E limit \in SampleLimits :
          LET l == IF proc[p].pc = "sample_page" THEN proc[p]
                   ELSE [Call(p, "sample_team_counters") EXCEPT !.arg = None,
                                                                !.batchCount = limit]
          IN  proc' = [proc EXCEPT ![p] =
                  SamplePageOf(l, sample_team_counters(db, l.batchCount, l.arg))]
    /\ UNCHANGED <<db, clock, version, hist, calls>>

SampleCrawlsPage(p) ==
    /\ \/ proc[p].pc \in {"idle", "done"}
       \/ proc[p].pc = "sample_page" /\ proc[p].op = "sample_crawl_counters"
    /\ \E limit \in SampleLimits :
          LET l == IF proc[p].pc = "sample_page" THEN proc[p]
                   ELSE [Call(p, "sample_crawl_counters") EXCEPT !.arg = None,
                                                                 !.batchCount = limit]
          IN  proc' = [proc EXCEPT ![p] =
                  SamplePageOf(l, sample_crawl_counters(db, l.batchCount, l.arg))]
    /\ UNCHANGED <<db, clock, version, hist, calls>>

NextSample == SampleTeamsPage(Janitor) \/ SampleCrawlsPage(Janitor)

SpecSample == InitSample /\ [][NextSample]_vars

-----------------------------------------------------------------------------
(* Claims checked under SpecSample                                           *)

\* the counter type a paging caller samples
SampledType(p) ==
    IF proc[p].op = "sample_team_counters" THEN COUNTER_TEAM ELSE COUNTER_CRAWL

\* the ids that have a stored counter of a type
StoredIds(counter_type) ==
    {SampleIds[i] : i \in {j \in 1..Len(SampleIds) :
                               build_counter_key(counter_type, SampleIds[j])
                                   \in DOMAIN db.counters}}

\* C32: every page of sample_team_counters and of sample_crawl_counters has at
\* most limit ids, the ids come in key order and every page lies strictly
\* after the `after` it was asked with, so that no id is returned twice; and
\* when a page comes back empty every id with a stored counter of the type has
\* been returned.
C32_SamplePagesVisitAll ==
    \A p \in AllProcs :
        proc[p].op \in {"sample_team_counters", "sample_crawl_counters"} =>
            LET visited == proc[p].toCheck
            IN  /\ proc[p].iter <= proc[p].batchCount
                /\ \A i \in 1..(Len(visited) - 1) :
                       KeyLess(build_counter_key(SampledType(p), visited[i]),
                               build_counter_key(SampledType(p), visited[i + 1]))
                /\ proc[p].pc = "done" =>
                       {visited[i] : i \in 1..Len(visited)} = StoredIds(SampledType(p))

-----------------------------------------------------------------------------
(* What pop_next_job leaves alone, checked under Spec                        *)

\* caller p takes a step of pop_next_job
PopStep(p) == proc'[p] # proc[p] /\ proc'[p].op = "pop_next_job"

\* the step takes a queue record, or a claim, out of the store
QueueRemoved == DOMAIN db.queue \ DOMAIN db'.queue
ClaimsLost == DOMAIN db.claims \ DOMAIN db'.claims

\* the counters of the team and of the crawl of a job
JobCounters(job) ==
    {build_counter_key(COUNTER_TEAM, job.teamId)}
        \cup (IF IsSome(job.crawlId)
              THEN {build_counter_key(COUNTER_CRAWL, Unwrap(job.crawlId))} ELSE {})

\* C33: a step of pop_next_job keeps every stored claim as it is; its cleanup
\* transaction removes only queue records that had expired when the pop
\* started and changes only the counters of those jobs, and no other step of
\* a pop changes a queue record, an index entry or a counter. A queue record
\* leaves the store only by complete_job, clean_expired_jobs or the cleanup
\* of an expired job by a pop, and a claim only by complete_job, release_job
\* or clean_orphaned_claims.
C33_PopFrame ==
    [][/\ \A p \in Procs : PopStep(p) =>
              /\ Extends(db.claims, db'.claims)
              /\ \A k \in DOMAIN db.queue \cap DOMAIN db'.queue : db'.queue[k] = db.queue[k]
              /\ DOMAIN db'.queue \subseteq DOMAIN db.queue
              /\ \A k \in QueueRemoved : IsExpired(db.queue[k], proc[p].now)
              /\ \A ck \in DOMAIN db.counters \cup DOMAIN db'.counters :
                     CounterValue(db'.counters, ck) # CounterValue(db.counters, ck) =>
                         \E i \in 1..Len(proc[p].expired) :
                             ck \in JobCounters(proc[p].expired[i].job)
              /\ proc[p].pc # "pop_cleanup" =>
                     /\ db'.queue = db.queue /\ db'.counters = db.counters
                     /\ db'.crawlIndex = db.crawlIndex /\ db'.ttlIndex = db.ttlIndex
              /\ db'.active = db.active /\ db'.activeCrawl = db.activeCrawl
       /\ QueueRemoved # {} =>
              \E p \in Procs : /\ proc'[p] # proc[p]
                                /\ proc[p].pc \in {"complete_commit", "sweep_batch", "pop_cleanup"}
       /\ ClaimsLost # {} =>
              \E p \in Procs : /\ proc'[p] # proc[p]
                                /\ \/ proc[p].pc \in {"complete_commit", "orphan_commit"}
                                   \/ proc'[p].op = "release_job"
      ]_vars

\* a pop has returned a job whose record is still queued, two claims are
\* stored, and an expired job has been taken out of a queue by a pop
C33_Witness ==
    /\ \E p \in Procs :
          /\ proc[p].op = "pop_next_job" /\ proc[p].pc = "done" /\ proc[p].ret = "Some"
          /\ \E k \in DOMAIN db.queue : db.queue[k] = proc[p].retJob
    /\ Cardinality(DOMAIN db.claims) >= 2
    /\ Cardinality(DOMAIN db.queue) < Cardinality(pushed)

-----------------------------------------------------------------------------
(* Pops whose scan is older than the store, checked under Spec               *)

\* caller p commits the claim for its candidate
ClaimCommitted(p) == proc[p].pc = "pop_claim" /\ proc'[p].pc = "pop_verify"

\* C34: the job a pop_next_job returns had its queue record when the pop's claim
\* committed: no pop commits, for a candidate whose queue record is no longer
\* stored, the claim that stands first for the job, the one its verify read
\* finds and returns the job on.
C34_ClaimedRecordStored ==
    [][\A p \in Procs :
          ClaimCommitted(p) /\ IsWinner(db', Head(proc[p].cands).job.id, proc[p].worker)
              => Head(proc[p].cands).key \in DOMAIN db.queue]_vars

\* C35: in every reachable state get_team_queue_count of every team and
\* get_crawl_queue_count of every crawl are 0 or more, whatever pops, sweeps
\* and complete_job calls overlap.
C35_QueuedCountersNotNegative ==
    /\ \A team_id \in TeamIds : get_team_queue_count(db, team_id) >= 0
    /\ \A crawl_id \in CrawlIds : get_crawl_queue_count(db, crawl_id) >= 0

-----------------------------------------------------------------------------
(* Active-job tracking one call at a time: every push and remove is a single *)
(* transaction and the clock stands still, so that no record expires         *)

\* get_active_job_count: the stored counter, never below 0 (lines 740-745)
get_active_job_count(d, team_id) ==
    LET value == CounterValue(d.counters, build_counter_key(COUNTER_ACTIVE_TEAM, team_id))
    IN  IF value > 0 THEN value ELSE 0

\* the job ids get_active_jobs and get_crawl_active_jobs read out of the keys
\* of the unexpired records of a range (lines 759-772, 817-830)
ActiveJobsOf(f, start_key, now) ==
    LET range == GetRange(f, start_key, end_key(start_key), ACTIVE_SCAN_LIMIT)
        live == SelectSeq(range, LAMBDA key : f[key] > now /\ Len(key) > Len(start_key) + 4)
    IN  [i \in 1..Len(live) |-> SubSeq(live[i], Len(start_key) + 5, Len(live[i]))]

get_active_jobs(d, team_id, now) == ActiveJobsOf(d.active, build_active_prefix(team_id), now)

get_crawl_active_jobs(d, crawl_id, now) ==
    ActiveJobsOf(d.activeCrawl, build_active_crawl_prefix(crawl_id), now)

NextTracking ==
    \/ \E p \in Procs : PushActiveJob(p)
    \/ \E p \in Procs : PushCrawlActiveJob(p)
    \/ \E p \in Procs : RemoveActiveJob(p)
    \/ \E p \in Procs : RemoveCrawlActiveJob(p)

SpecTracking == Init /\ [][NextTracking]_vars

\* C36: after any sequence of push_active_job and remove_active_job calls, one
\* at a time and with no record expired, the team-active counter of every
\* team is the number of active records stored for the team, and
\* get_active_job_count is the length of get_active_jobs; the crawl-active
\* counter of every crawl is the number of its records and the length of
\* get_crawl_active_jobs.
C36_ActiveCounterIsRecordCount ==
    /\ \A team_id \in ActiveTeamIds :
           /\ CounterValue(db.counters, build_counter_key(COUNTER_ACTIVE_TEAM, team_id))
                  = Cardinality({k \in DOMAIN db.active :
                                    HasPrefix(k, build_active_prefix(team_id))})
           /\ get_active_job_count(db, team_id) = Len(get_active_jobs(db, team_id, clock))
    /\ \A crawl_id \in CrawlIds :
           /\ CounterValue(db.counters, build_counter_key(COUNTER_ACTIVE_CRAWL, crawl_id))
                  = Cardinality({k \in DOMAIN db.activeCrawl :
                                    HasPrefix(k, build_active_crawl_prefix(crawl_id))})
           /\ CounterValue(db.counters, build_counter_key(COUNTER_ACTIVE_CRAWL, crawl_id))
                  = Len(get_crawl_active_jobs(db, crawl_id, clock))

-----------------------------------------------------------------------------
(* A queue whose head is held: jobs in progress, each with the claim of the  *)
(* pop that won it, stand before a job nobody has claimed                    *)

\* how many jobs in progress come first: none, one, and a scan less one or full
HeadCounts == {0, 1, POP_SCAN_LIMIT - 1, POP_SCAN_LIMIT}

\* the jobs in progress and job "aa", which sorts after them, all of team "t"
\* with priority 1, no timeout and no crawl
InitHead ==
    /\ \E n \in HeadCounts :
          /\ db = PushTx(BulkClaims(EmptyDb, <<116>>, 0, n - 1), 0, <<116>>, <<97, 97>>, 1,
                         None, None)
          /\ pushed = {BulkJobId(i) : i \in 0..(n - 1)} \cup {<<97, 97>>}
          /\ version = n
    /\ clock = 0
    /\ proc = [p \in AllProcs |-> IdleProc]
    /\ popLog = <<>>
    /\ released = {}
    /\ issued = {}
    /\ doneTrue = EmptyMap
    /\ calls = 0

\* the pops run one at a time
SpecHead == InitHead /\ [][NextOrder]_vars

\* the queue records of a team that a pop is meant to hand out: unexpired, not
\* of a blocked crawl and without a claim
Claimable(d, team_id, now, blocked) ==
    {k \in DOMAIN d.queue :
        /\ d.queue[k].teamId = team_id
        /\ ~IsExpired(d.queue[k], now) /\ ~IsBlocked(d.queue[k], blocked)
        /\ ClaimKeysOf(d, d.queue[k].id) = {}}

\* C37: a pop_next_job run alone returns no job only if the team has no queued
\* job that is unexpired, not of a blocked crawl and without a claim, however
\* many claimed records stand before such a job in key order.
C37_PopFindsClaimable ==
    [][\A p \in Procs :
          Returns(p, "pop_next_job") /\ proc'[p].ret = "None"
              => Claimable(db, proc'[p].team, proc'[p].now, proc'[p].blocked) = {}]_vars

-----------------------------------------------------------------------------
(* Two callers that pop under one worker id: two tasks of one worker process *)

SharedWorkerId == WorkerIdOf(1)

\* each caller pops once, their steps interleaved in every way
NextShared ==
    \/ \E p \in Procs : proc[p].pc = "idle" /\ PopScanAs(p, {SharedWorkerId})
    \/ \E p \in Procs : PopCleanup(p)
    \/ \E p \in Procs : PopProbe(p)
    \/ \E p \in Procs : PopClaim(p)
    \/ \E p \in Procs : PopVerify(p)

SpecShared == InitPops /\ [][NextShared]_vars

\* C38: two pop_next_job calls that run under the same workerId never both
\* return the same job: no job is returned by more than one of the calls.
C38_SharedWorkerSingleWinner == \A job_id \in JobIds : Wins(job_id) <= 1

-----------------------------------------------------------------------------
(* A held job and a release_job issued by a worker that does not hold it:    *)
(* worker 1 holds job "a" and releases or completes it once, worker 2 may    *)
(* call release_job for it, workers 2 and 3 pop                              *)

NextForeign ==
    \/ proc[1].op = "pop_next_job" /\ ReleaseJob(1)
    \/ proc[1].op = "pop_next_job" /\ CompleteRead(1)
    \/ CompleteCommit(1)
    \/ ReleaseJob(2)
    \/ \E p \in AllProcs \ {1} : PopScan(p)
    \/ \E p \in AllProcs \ {1} : PopProbe(p)
    \/ \E p \in AllProcs \ {1} : PopClaim(p)
    \/ \E p \in AllProcs \ {1} : PopVerify(p)

SpecForeign == InitHeld /\ [][NextForeign]_vars

\* the holder has released the job, or its complete_job has committed
HolderLetGo ==
    \/ proc[1].op = "release_job" /\ proc[1].arg = HeldJobId
    \/ doneTrue # EmptyMap

\* C39: as long as the worker that holds the winning claim for a job has
\* neither released nor completed it, no other pop is returned the job,
\* whoever else calls release_job for it; and the holder's release leaves the
\* queued job without a claim, so that the next pop that reaches it takes it.
C39_OnlyHolderFrees ==
    /\ [](~HolderLetGo => Len(popLog) = 1)
    /\ [][StepOf(1, "release_job") /\ proc'[1].arg = HeldJobId /\ HeldQueueKey \in DOMAIN db.queue
              => HeldQueueKey \in DOMAIN db'.queue /\ ClaimKeysOf(db', HeldJobId) = {}]_vars

====
